---- MODULE Spec2Model ----
(***************************************************************************)
(* Model of secret_key_manager.core: the provider registry                 *)
(* (_PROVIDER_REGISTRY, KeyProvider, get_registered_providers,             *)
(* initialize_providers) and the KeyManager singleton (its live provider   *)
(* list, its key cache, get_key, set_key, enable/disable, register).       *)
(*                                                                         *)
(* Providers are external collaborators: what a provider's get_key,        *)
(* supports_write, validate_key, write_key or constructor does on one call *)
(* is an input of the manager operation that makes the call.               *)
(***************************************************************************)
EXTENDS Integers, Sequences, FiniteSets, TLC

VARIABLES
    registry,       \* _PROVIDER_REGISTRY: descriptors in dict insertion order
    initialized,    \* KeyManager._initialized
    providers,      \* KeyManager._providers: the live instances, in list order
    keys,           \* KeyManager._keys: the key cache
    environ,        \* os.environ, restricted to the modelled key names
    op,             \* the last manager call: its name and arguments
    ret,            \* what that call returned, RAISE if an exception left it
    calls,          \* the provider methods that call invoked, in order
    listed,         \* the list or the dict items that call returned, if it returns one
    instance,       \* KeyManager._instance: the manager object, None before it is made
    allocated,      \* how many KeyManager objects object.__new__ has made so far
    constructed,    \* how often the manager has called each provider class's
                    \* constructor since the last successful enable/disable
    threads         \* where each thread is inside the manager when several
                    \* threads call it (NoThreads while there is one caller)

vars == <<registry, initialized, providers, keys, environ, op, ret, calls, listed,
          instance, allocated, constructed, threads>>

-----------------------------------------------------------------------------
(* Bounds and input sets *)

\* Number of provider classes that can be decorated with @KeyProvider.
NumKinds == 3

\* Longest candidate list the persistence loop of set_key is explored on
\* (every behaviour of every candidate is an input of the loop).
MaxCandidates == 2

\* Largest registry get_registered_providers is explored on by itself
MaxDescriptors == 3

Kinds == 1..NumKinds

\* Decorator arguments of the provider classes: KeyProvider(priority=, name=).
\* Two classes share a priority (a tie) and two share a display name.
KindPriorities == <<30, 10, 10, 20>>
KindNames == <<"p1", "p2", "p1", "p3">>

KindPriority(c) == KindPriorities[((c - 1) % 4) + 1]
KindName(c) == KindNames[((c - 1) % 4) + 1]

KeyNames == {"k1"}

\* Python's None
None == "None"

\* A raised exception, as the outcome of a call
RAISE == "RAISE"

\* Non-empty strings a provider can hold or a caller can set
Secrets == {"v1", "v2"}

\* What provider.get_key(key_name) can do: return None, "", a value, or raise
Responses == {None, "", RAISE} \cup Secrets

\* Names a caller can put into a providers=[...] filter ("px" matches nothing)
FilterNames == {"p1", "p2", "px"}

\* providers=None, told apart from every list of names
NoFilter == {None}

\* The providers argument: None or a list of names (only membership is used)
Filters == {NoFilter, {}} \cup {{n} : n \in FilterNames} \cup {{"p1", "p2"}}

-----------------------------------------------------------------------------
(* The registry *)

Descriptor(c, enabled) ==
    [cls |-> c, enabled |-> enabled, priority |-> KindPriority(c), name |-> KindName(c)]

\* A live instance: its class, its name property and the priority its class
\* is registered with. manual is not a field of the program: it records
\* that the caller built the instance and passed it to register_provider.
Instance(d) == [cls |-> d.cls, name |-> d.name, priority |-> d.priority, manual |-> FALSE]

ManualInstance(c) ==
    [cls |-> c, name |-> KindName(c), priority |-> KindPriority(c), manual |-> TRUE]

RegisteredKinds(reg) == {reg[i].cls : i \in 1..Len(reg)}

\* _PROVIDER_REGISTRY[cls.__name__] = {...}: a new key is appended, an existing
\* key keeps its position and gets the new value.
RegistryPut(reg, d) ==
    IF d.cls \in RegisteredKinds(reg)
    THEN [i \in 1..Len(reg) |-> IF reg[i].cls = d.cls THEN d ELSE reg[i]]
    ELSE Append(reg, d)

\* A sort that is not stable: d goes before the elements of its own priority
RECURSIVE InsertBeforeEqual(_, _)
InsertBeforeEqual(s, d) ==
    IF s = <<>> THEN <<d>>
    ELSE IF Head(s).priority < d.priority
         THEN <<Head(s)>> \o InsertBeforeEqual(Tail(s), d)
         ELSE <<d>> \o s

\* Insert d into a priority-sorted sequence after every element whose priority
\* is not greater (what a stable sort does with equal keys).
RECURSIVE InsertByPriority(_, _)
InsertByPriority(s, d) ==
    IF s = <<>> THEN <<d>>
    ELSE IF Head(s).priority <= d.priority
         THEN <<Head(s)>> \o InsertByPriority(Tail(s), d)
         ELSE <<d>> \o s

RECURSIVE SortedByPriority(_)
SortedByPriority(s) ==
    IF s = <<>> THEN <<>>
    ELSE InsertByPriority(SortedByPriority(SubSeq(s, 1, Len(s) - 1)), s[Len(s)])

\* get_registered_providers(): sorted(providers, key=priority), a stable sort
get_registered_providers(reg) == SortedByPriority(reg)

\* An initialization that does not look at the enabled flag
IsBuilt(d, ok) == d.cls \in ok

\* `if provider_info["enabled"]:` and a constructor that does not raise
IsEnabledAndBuilt(d, ok) == d.enabled /\ d.cls \in ok

RECURSIVE BuildInstances(_, _)
BuildInstances(s, ok) ==
    IF s = <<>> THEN <<>>
    ELSE IF IsEnabledAndBuilt(Head(s), ok)
         THEN <<Instance(Head(s))>> \o BuildInstances(Tail(s), ok)
         ELSE BuildInstances(Tail(s), ok)

\* initialize_providers(): one instance per enabled descriptor, in priority
\* order; ok is the set of classes whose constructor does not raise.
initialize_providers(reg, ok) == BuildInstances(get_registered_providers(reg), ok)

\* KeyManager._initialize(): the live list after the call
Initialized(reg, init, live, ok) ==
    IF ~init THEN initialize_providers(reg, ok) ELSE live

\* The constructor outcomes that matter in a state: none when no constructor runs
FactoryOutcomes(reg, init) ==
    IF init THEN {{}}
    ELSE SUBSET {reg[i].cls : i \in {j \in 1..Len(reg) : reg[j].enabled}}

\* The classes initialize_providers() calls the constructor of: the enabled
\* ones, whether the constructor raises or not
EnabledKinds(reg) == {reg[i].cls : i \in {j \in 1..Len(reg) : reg[j].enabled}}

\* No constructor call counted yet
NoneConstructed == [c \in Kinds |-> 0]

\* The constructor calls of one initialize_providers(), counted on top of n
CountBuild(reg, n) == [c \in Kinds |-> IF c \in EnabledKinds(reg) THEN n[c] + 1 ELSE n[c]]

\* An _initialize() that does not look at _initialized
ConstructedAlways(reg, init, n) == CountBuild(reg, n)

\* KeyManager._initialize(): the constructor calls counted after it
ConstructedBy(reg, init, n) == IF ~init THEN CountBuild(reg, n) ELSE n

-----------------------------------------------------------------------------
(* The manager's cache and the provider walk of get_key *)

\* A key that is not in a dict
Absent == "Absent"

\* `if providers is not None:` - an empty list is a filter that lets nothing through
FilterGivenUnlessNone(F) == F # NoFilter

\* `if providers:` - None and the empty list both mean "no filter"
FilterGiven(F) == F # NoFilter /\ F # {}

\* A get_key that ignores its providers argument
CandidatesUnfiltered(live, F) == live

\* active_providers: the live list, narrowed to the names in the filter
Candidates(live, F) ==
    IF FilterGiven(F) THEN SelectSeq(live, LAMBDA p : p.name \in F) ELSE live

\* A get_key that never looks into its cache
CacheNeverHit(cache, k) == FALSE

\* `key_name in self._keys and self._keys[key_name]`
CacheHit(cache, k) == cache[k] # Absent /\ cache[k] # ""

\* `if key_value is not None:` in the place of `if key_value:`
IsNotNone(r) == r # None

\* `if key_value:` on what provider.get_key returned
IsFound(r) == r # None /\ r # ""

Call(p, m, r) == [cls |-> p.cls, name |-> p.name, m |-> m, r |-> r]

\* A loop without its `return`: every candidate is asked, the first value wins
TryProvidersNoReturn(active, resp, log) ==
    LET found == {i \in 1..Len(active) :
                    resp[active[i].cls] \notin {None, "", RAISE}}
    IN  [log |-> log \o [i \in 1..Len(active) |->
                            Call(active[i], "get_key", resp[active[i].cls])],
         value |-> IF found = {} THEN None
                   ELSE resp[active[CHOOSE i \in found : \A j \in found : i <= j].cls]]

\* A loop without its try/except: the exception of a provider ends the walk
\* and is what the caller gets
RECURSIVE TryProvidersNoExcept(_, _, _)
TryProvidersNoExcept(active, resp, log) ==
    IF active = <<>> THEN [log |-> log, value |-> None]
    ELSE IF resp[Head(active).cls] \notin {None, ""}
         THEN [log |-> Append(log, Call(Head(active), "get_key", resp[Head(active).cls])),
               value |-> resp[Head(active).cls]]
         ELSE TryProvidersNoExcept(Tail(active), resp,
                           Append(log, Call(Head(active), "get_key", resp[Head(active).cls])))

\* The for loop of get_key over active_providers, from the calls logged so
\* far: log is the get_key calls made, value the first value found (None
\* when the loop runs out). resp[c] is what the provider of class c does.
RECURSIVE TryProviders(_, _, _)
TryProviders(active, resp, log) ==
    IF active = <<>> THEN [log |-> log, value |-> None]
    ELSE IF resp[Head(active).cls] # RAISE /\ IsFound(resp[Head(active).cls])
         THEN [log |-> Append(log, Call(Head(active), "get_key", resp[Head(active).cls])),
               value |-> resp[Head(active).cls]]
         ELSE TryProviders(Tail(active), resp,
                           Append(log, Call(Head(active), "get_key", resp[Head(active).cls])))

\* A get_key that trusts its cache only while a candidate is live
get_key_HitNeedsProvider(live, cache, env, k, F, resp) ==
    IF cache[k] # Absent /\ cache[k] # "" /\ Candidates(live, F) # <<>>
    THEN [ret |-> cache[k], calls |-> <<>>, keys |-> cache, environ |-> env]
    ELSE LET walk == TryProviders(Candidates(live, F), resp, <<>>)
         IN  IF walk.value # None
             THEN [ret |-> walk.value, calls |-> walk.log,
                   keys |-> [cache EXCEPT ![k] = walk.value],
                   environ |-> [env EXCEPT ![k] = walk.value]]
             ELSE [ret |-> None, calls |-> walk.log, keys |-> cache, environ |-> env]

\* A get_key that returns what it finds without writing it to the cache
get_key_NoCacheWrite(live, cache, env, k, F, resp) ==
    IF cache[k] # Absent /\ cache[k] # ""
    THEN [ret |-> cache[k], calls |-> <<>>, keys |-> cache, environ |-> env]
    ELSE LET walk == TryProviders(Candidates(live, F), resp, <<>>)
         IN  [ret |-> walk.value, calls |-> walk.log, keys |-> cache,
              environ |-> IF walk.value # None THEN [env EXCEPT ![k] = walk.value] ELSE env]

\* A get_key that remembers a miss as an empty cache entry
get_key_CachesMiss(live, cache, env, k, F, resp) ==
    IF cache[k] # Absent /\ cache[k] # ""
    THEN [ret |-> cache[k], calls |-> <<>>, keys |-> cache, environ |-> env]
    ELSE LET walk == TryProviders(Candidates(live, F), resp, <<>>)
         IN  IF walk.value # None
             THEN [ret |-> walk.value, calls |-> walk.log,
                   keys |-> [cache EXCEPT ![k] = walk.value],
                   environ |-> [env EXCEPT ![k] = walk.value]]
             ELSE [ret |-> None, calls |-> walk.log,
                   keys |-> [cache EXCEPT ![k] = ""], environ |-> env]

\* A get_key that trusts its cache only when no providers argument is given
get_key_FilterSkipsCache(live, cache, env, k, F, resp) ==
    IF cache[k] # Absent /\ cache[k] # "" /\ ~FilterGiven(F)
    THEN [ret |-> cache[k], calls |-> <<>>, keys |-> cache, environ |-> env]
    ELSE LET walk == TryProviders(Candidates(live, F), resp, <<>>)
         IN  IF walk.value # None
             THEN [ret |-> walk.value, calls |-> walk.log,
                   keys |-> [cache EXCEPT ![k] = walk.value],
                   environ |-> [env EXCEPT ![k] = walk.value]]
             ELSE [ret |-> None, calls |-> walk.log, keys |-> cache, environ |-> env]

\* Key names that os.environ does not take: `os.environ[key_name] = value`
\* raises for the empty name and for a name with "=" in it
EnvRejected == {"", "a=b"}

EnvAccepts(k) == k \notin EnvRejected

\* An environment that takes every name
EnvAcceptsAll(k) == TRUE

\* The for loop of get_key for a key name that os.environ rejects: the cache
\* is written, the assignment to os.environ raises inside the try block, the
\* except clause logs it and the loop goes on to the next candidate without
\* reaching `return`. value is what the cache was last written with (None if
\* it was not written).
RECURSIVE TryProvidersEnvRaises(_, _, _, _)
TryProvidersEnvRaises(active, resp, log, value) ==
    IF active = <<>> THEN [log |-> log, value |-> value]
    ELSE TryProvidersEnvRaises(Tail(active), resp,
            Append(log, Call(Head(active), "get_key", resp[Head(active).cls])),
            IF resp[Head(active).cls] # RAISE /\ IsFound(resp[Head(active).cls])
            THEN resp[Head(active).cls] ELSE value)

\* KeyManager.get_key after _initialize(): the return value, the provider
\* calls made, and the cache and environment it leaves.
get_key(live, cache, env, k, F, resp) ==
    IF CacheHit(cache, k)
    THEN [ret |-> cache[k], calls |-> <<>>, keys |-> cache, environ |-> env]
    ELSE IF EnvAccepts(k)
    THEN LET walk == TryProviders(Candidates(live, F), resp, <<>>)
         IN  IF walk.value # None
             THEN [ret |-> walk.value, calls |-> walk.log,
                   keys |-> [cache EXCEPT ![k] = walk.value],
                   environ |-> [env EXCEPT ![k] = walk.value]]
             ELSE [ret |-> None, calls |-> walk.log, keys |-> cache, environ |-> env]
    ELSE LET walk == TryProvidersEnvRaises(Candidates(live, F), resp, <<>>, None)
         IN  [ret |-> None, calls |-> walk.log,
              keys |-> IF walk.value # None THEN [cache EXCEPT ![k] = walk.value]
                       ELSE cache,
              environ |-> env]

\* What a provider's get_key can do that makes the walk go on
Misses == {None, "", RAISE}

\* The inputs of one provider walk over n candidates: the responses of the
\* providers the walk reaches, in the order it reaches them. A walk ends at
\* the first value, so nothing behind it is an input.
IsWalk(w, n) ==
    /\ \A i \in 1..(Len(w) - 1) : w[i] \in Misses
    /\ Len(w) < n => (Len(w) > 0 /\ w[Len(w)] \in Secrets)

Walks(n) ==
    {x : x \in {w \in UNION {[1..m -> Responses] : m \in 0..n} : IsWalk(w, n)}}

\* Walks, tabulated once for every length a candidate list can have
WalkTable == {<<n, Walks(n)>> : n \in 0..NumKinds}

WalksOfLength(n) == (CHOOSE p \in WalkTable : p[1] = n)[2]

ResponsesFor(live, cache, k, F) ==
    IF CacheHit(cache, k) THEN {<<>>} ELSE WalksOfLength(Len(Candidates(live, F)))

\* Walk w over the candidates as what every provider class does: a provider
\* the walk does not reach is never asked, and is given None
AsResponses(active, w) ==
    [c \in Kinds |->
        IF \E i \in 1..Len(w) : active[i].cls = c
        THEN w[CHOOSE i \in 1..Len(w) : active[i].cls = c]
        ELSE None]

\* What every provider class did in the calls logged, None if it was not asked
ResponsesIn(log) ==
    [c \in Kinds |->
        IF \E i \in 1..Len(log) : log[i].cls = c
        THEN log[CHOOSE i \in 1..Len(log) : log[i].cls = c].r
        ELSE None]

-----------------------------------------------------------------------------
(* The persistence loop of set_key *)

\* Python's True and False as return values
PyTrue == "True"
PyFalse == "False"

\* hasattr(provider, method) is false
NoAttr == "NoAttr"

\* The method is not reached on this provider
NotCalled == "NotCalled"

\* What one candidate does in the loop of set_key: supports_write (missing,
\* False, True or raising), then validate_key (missing, False, True or
\* raising), then write_key (True, False or raising).
WriteBehaviours ==
    {[sup |-> x, val |-> NotCalled, wr |-> NotCalled] : x \in {NoAttr, PyFalse, RAISE}}
    \cup {[sup |-> PyTrue, val |-> x, wr |-> NotCalled] : x \in {PyFalse, RAISE}}
    \cup {[sup |-> PyTrue, val |-> x, wr |-> y] :
            x \in {NoAttr, PyTrue}, y \in {PyTrue, PyFalse, RAISE}}

\* supports_write() and validate_key() are called outside the try block
Propagates(b) == b.sup = RAISE \/ b.val = RAISE

\* The inputs of one persistence loop over n candidates: what the candidates
\* the loop reaches do, in order. The loop ends at the first exception that
\* is not caught, so nothing behind it is an input.
IsWriteWalk(w, n) ==
    /\ \A i \in 1..(Len(w) - 1) : ~Propagates(w[i])
    /\ Len(w) < n => (Len(w) > 0 /\ Propagates(w[Len(w)]))

WriteWalks(n) ==
    {x : x \in {w \in UNION {[1..m -> WriteBehaviours] : m \in 0..n} : IsWriteWalk(w, n)}}

\* WriteWalks, tabulated once for every length the loop is explored on
WriteWalkTable == {<<n, WriteWalks(n)>> : n \in 0..MaxCandidates}

WriteWalksOfLength(n) == (CHOOSE p \in WriteWalkTable : p[1] = n)[2]

\* The calls one loop iteration makes on provider p; the look-up of
\* supports_write is logged when the provider has no such method (NoAttr),
\* so that the log names every provider the loop came to
CallsOn(p, b) ==
    <<Call(p, "supports_write", b.sup)>>
    \o (IF b.val \in {NoAttr, NotCalled} THEN <<>> ELSE <<Call(p, "validate_key", b.val)>>)
    \o (IF b.wr = NotCalled THEN <<>> ELSE <<Call(p, "write_key", b.wr)>>)

\* `if provider.write_key(key_name, key_value): success = True`, inside try
Wrote(b) == b.wr = PyTrue

\* A loop that gives up at the first candidate that fails validation
RECURSIVE PersistToStopsAtInvalid(_, _, _, _)
PersistToStopsAtInvalid(active, beh, log, success) ==
    IF active = <<>> THEN [log |-> log, success |-> success, raised |-> FALSE]
    ELSE IF Propagates(Head(beh))
         THEN [log |-> log \o CallsOn(Head(active), Head(beh)),
               success |-> success, raised |-> TRUE]
         ELSE IF Head(beh).val = PyFalse
              THEN [log |-> log \o CallsOn(Head(active), Head(beh)),
                    success |-> success, raised |-> FALSE]
              ELSE PersistToStopsAtInvalid(Tail(active), Tail(beh),
                        log \o CallsOn(Head(active), Head(beh)),
                        success \/ Wrote(Head(beh)))

\* `success = provider.write_key(...)`: the last write decides
RECURSIVE PersistToLastWins(_, _, _, _)
PersistToLastWins(active, beh, log, success) ==
    IF active = <<>> THEN [log |-> log, success |-> success, raised |-> FALSE]
    ELSE IF Propagates(Head(beh))
         THEN [log |-> log \o CallsOn(Head(active), Head(beh)),
               success |-> success, raised |-> TRUE]
         ELSE PersistToLastWins(Tail(active), Tail(beh),
                        log \o CallsOn(Head(active), Head(beh)),
                        IF Head(beh).wr = NotCalled THEN success ELSE Wrote(Head(beh)))

\* A loop whose write_key is outside the try block: a write that raises ends
\* the loop and leaves set_key
RECURSIVE PersistToNoExcept(_, _, _, _)
PersistToNoExcept(active, beh, log, success) ==
    IF active = <<>> THEN [log |-> log, success |-> success, raised |-> FALSE]
    ELSE IF Propagates(Head(beh)) \/ Head(beh).wr = RAISE
         THEN [log |-> log \o CallsOn(Head(active), Head(beh)),
               success |-> success, raised |-> TRUE]
         ELSE PersistToNoExcept(Tail(active), Tail(beh),
                        log \o CallsOn(Head(active), Head(beh)),
                        success \/ Wrote(Head(beh)))

\* A loop whose try block begins before supports_write(): an exception of
\* supports_write() or validate_key() is swallowed and set_key returns what
\* it has
RECURSIVE PersistToGuardsAll(_, _, _, _)
PersistToGuardsAll(active, beh, log, success) ==
    IF active = <<>> THEN [log |-> log, success |-> success, raised |-> FALSE]
    ELSE IF Propagates(Head(beh))
         THEN [log |-> log \o CallsOn(Head(active), Head(beh)),
               success |-> success, raised |-> FALSE]
         ELSE PersistToGuardsAll(Tail(active), Tail(beh),
                        log \o CallsOn(Head(active), Head(beh)),
                        success \/ Wrote(Head(beh)))

\* The for loop of set_key over active_providers, from the state it has
\* reached: the calls logged so far and the success flag.
RECURSIVE PersistTo(_, _, _, _)
PersistTo(active, beh, log, success) ==
    IF active = <<>> THEN [log |-> log, success |-> success, raised |-> FALSE]
    ELSE IF Propagates(Head(beh))
         THEN [log |-> log \o CallsOn(Head(active), Head(beh)),
               success |-> success, raised |-> TRUE]
         ELSE PersistTo(Tail(active), Tail(beh),
                        log \o CallsOn(Head(active), Head(beh)),
                        success \/ Wrote(Head(beh)))

\* What set_key returns after the loop (RAISE: the exception left set_key)
SetKeyResult(loop) ==
    [ret |-> IF loop.raised THEN RAISE ELSE IF loop.success THEN PyTrue ELSE PyFalse,
     calls |-> loop.log]

\* A set_key that persists whatever its persist argument says
set_key_AlwaysPersists(live, persist, F, beh) ==
    SetKeyResult(PersistTo(Candidates(live, F), beh, <<>>, FALSE))

\* A set_key that keeps an empty value out of the cache
CacheAfterSetIfTruthy(cache, k, v) == IF v = "" THEN cache ELSE [cache EXCEPT ![k] = v]

\* A set_key that hands the value to the providers and leaves the cache alone
CacheAfterSetUntouched(cache, k, v) == cache

\* A set_key that replaces the dict by one that holds k only
CacheAfterSetAlone(cache, k, v) == [j \in DOMAIN cache |-> IF j = k THEN v ELSE Absent]

\* `self._keys[key_name] = key_value`, the first statement of set_key
CacheAfterSet(cache, k, v) == [cache EXCEPT ![k] = v]

\* KeyManager.set_key: the return value and the provider calls made
set_key(live, persist, F, beh) ==
    IF ~persist THEN [ret |-> PyTrue, calls |-> <<>>]
    ELSE SetKeyResult(PersistTo(Candidates(live, F), beh, <<>>, FALSE))

\* A look-up that falls back on the first descriptor when no name matches
RECURSIVE FindFirstIfMissing(_, _, _)
FindFirstIfMissing(reg, n, i) ==
    IF i > Len(reg) THEN (IF reg = <<>> THEN 0 ELSE 1)
    ELSE IF reg[i].name = n THEN i ELSE FindFirstIfMissing(reg, n, i + 1)

\* The first descriptor, in dict order, whose display name is n (0 if none)
RECURSIVE FindByName(_, _, _)
FindByName(reg, n, i) ==
    IF i > Len(reg) THEN 0
    ELSE IF reg[i].name = n THEN i ELSE FindByName(reg, n, i + 1)

\* A loop that finds the descriptor and leaves its flag as it is
SetEnabledForgets(reg, n, flag) == reg

\* A loop without its `return True`: every descriptor of the name is set
SetEnabledEvery(reg, n, flag) ==
    [i \in 1..Len(reg) |-> IF reg[i].name = n THEN [reg[i] EXCEPT !.enabled = flag]
                           ELSE reg[i]]

\* The registry after enable_provider / disable_provider set the flag
SetEnabled(reg, n, flag) ==
    LET i == FindByName(reg, n, 1)
    IN  IF i = 0 THEN reg ELSE [reg EXCEPT ![i].enabled = flag]

\* A register_provider without the look for the name
WithProviderAlways(live, p) == Append(live, p)

\* A register_provider that puts the instance where its priority belongs
WithProviderByPriority(live, p) ==
    IF \E i \in 1..Len(live) : live[i].name = p.name THEN live
    ELSE InsertByPriority(live, p)

\* register_provider: skip when a live instance has the name, else append
WithProvider(live, p) ==
    IF \E i \in 1..Len(live) : live[i].name = p.name THEN live ELSE Append(live, p)

-----------------------------------------------------------------------------
(* State machine: the single-threaded caller makes one call at a time; op,  *)
(* ret and calls describe the call that has just returned.                  *)

\* Only one caller: no thread is tracked
NoThreads == <<>>

\* The call is about no provider class
NoKind == {}

\* The caller made no call right before this one
NoCall == [name |-> "none", target |-> None, value |-> None, ret |-> None]

\* The call o that returned r, as the call made right before the next one
Preceding(o, r) == [name |-> o.name, target |-> o.target, value |-> o.value, ret |-> r]

\* A call as the caller makes it; uninitialized tells whether _initialized was
\* False when the call was made
OpRecord(name, k, v, persist, F, target, kind, cached, again) ==
    [name |-> name, key |-> k, value |-> v, persist |-> persist, filter |-> F,
     target |-> target, kind |-> kind, cached |-> cached, again |-> again,
     after |-> NoCall, uninitialized |-> ~initialized]

\* The KeyManager objects of the process, in the order they are made
ManagerRefs == <<"manager1", "manager2", "manager3">>

\* The object made by `keys = KeyManager()` when the module is imported
ModuleManager == ManagerRefs[1]

\* A __new__ without the `is None` test: every construction makes an object
NewAlways(inst, n) ==
    IF n < Len(ManagerRefs)
    THEN [instance |-> ManagerRefs[n + 1], allocated |-> n + 1]
    ELSE [instance |-> ManagerRefs[n], allocated |-> n]

\* KeyManager.__new__: the object made on the first construction is kept in
\* _instance and handed out by every construction
New(inst, n) ==
    IF inst = None
    THEN [instance |-> ManagerRefs[n + 1], allocated |-> n + 1]
    ELSE [instance |-> inst, allocated |-> n]

\* The caller is between two calls
Idle ==
    [OpRecord("idle", None, None, FALSE, NoFilter, None, NoKind, None, FALSE)
        EXCEPT !.uninitialized = FALSE]

\* The module is imported, keys = KeyManager() is built, no provider module
\* is loaded yet.
Init ==
    /\ registry = <<>>
    /\ initialized = FALSE
    /\ providers = <<>>
    /\ keys = [k \in KeyNames |-> Absent]
    /\ environ = [k \in KeyNames |-> Absent]
    /\ op = Idle
    /\ ret = None
    /\ calls = <<>>
    /\ listed = <<>>
    /\ instance = ModuleManager
    /\ allocated = 1
    /\ constructed = NoneConstructed
    /\ threads = NoThreads

\* The caller has taken the result and goes on to its next call
Return ==
    /\ op # Idle
    /\ op' = Idle
    /\ ret' = None
    /\ calls' = <<>>
    /\ listed' = <<>>
    /\ UNCHANGED <<registry, initialized, providers, keys, environ, instance, allocated,
                 constructed, threads>>

\* A decorator that also builds an instance of an enabled class into a manager
\* that is already initialized
KeyProviderInstantiates(c, enabled) ==
    /\ op = Idle
    /\ c = Len(registry) + 1
    /\ registry' = RegistryPut(registry, Descriptor(c, enabled))
    /\ providers' = IF initialized /\ enabled
                    THEN Append(providers, Instance(Descriptor(c, enabled)))
                    ELSE providers
    /\ op' = OpRecord("KeyProvider", None, None, FALSE, NoFilter, None, {c}, None, FALSE)
    /\ ret' = None
    /\ calls' = <<>>
    /\ UNCHANGED <<initialized, keys, environ, listed, instance, allocated,
                 constructed, threads>>

\* @KeyProvider(enabled=..., priority=..., name=...) applied to class c; the
\* provider classes are defined (their modules loaded) in the order 1, 2, ...
KeyProvider(c, enabled) ==
    /\ op = Idle
    /\ c = Len(registry) + 1
    /\ registry' = RegistryPut(registry, Descriptor(c, enabled))
    /\ op' = OpRecord("KeyProvider", None, None, FALSE, NoFilter, None, {c}, None, FALSE)
    /\ ret' = None
    /\ calls' = <<>>
    /\ UNCHANGED <<initialized, providers, keys, environ, listed, instance, allocated,
                 constructed, threads>>

\* The state change of keys.get_key(k, providers=F); after is the call the
\* caller made right before it, NoCall if that is not kept track of
GetKeyCall(k, F, ok, resp, again, after) ==
    LET live == Initialized(registry, initialized, providers, ok)
    IN  /\ providers' = live
        /\ initialized' = TRUE
        /\ \E out \in {get_key(live, keys, environ, k, F, resp)} :
              /\ keys' = out.keys
              /\ environ' = out.environ
              /\ ret' = out.ret
              /\ calls' = out.calls
        /\ op' = [OpRecord("get_key", k, None, FALSE, F, None, NoKind, keys[k], again)
                    EXCEPT !.after = after]
        /\ constructed' = ConstructedBy(registry, initialized, constructed)
        /\ UNCHANGED <<registry, listed, instance, allocated, threads>>

\* keys.get_key(k, providers=F)
GetKey(k, F, ok, resp) ==
    /\ op = Idle
    /\ GetKeyCall(k, F, ok, resp, FALSE, NoCall)

\* The caller repeats the get_key call it has just made, with nothing in
\* between: every provider answers as it did in the first call.
GetKeyAgain ==
    /\ op.name = "get_key"
    /\ ~op.again
    /\ GetKeyCall(op.key, op.filter, {}, ResponsesIn(calls), TRUE, NoCall)

\* keys.get_key(k, providers=F) as the call right after the set_key(k, v)
\* that has just returned
GetKeyAfterSet(F, ok, resp) ==
    /\ op.name = "set_key"
    /\ GetKeyCall(op.key, F, ok, resp, FALSE, Preceding(op, ret))

\* keys.get_key(k) as the call right after the enable_provider(n) or
\* disable_provider(n) that has just returned
GetKeyAfterToggle(k, ok, resp) ==
    /\ op.name \in {"enable_provider", "disable_provider"}
    /\ GetKeyCall(k, NoFilter, ok, resp, FALSE, Preceding(op, ret))

\* keys.set_key(k, v, persist, providers=F)
SetKey(k, v, persist, F, ok, beh) ==
    LET live == IF persist THEN Initialized(registry, initialized, providers, ok)
                ELSE providers
    IN  /\ op = Idle
        /\ keys' = CacheAfterSet(keys, k, v)
        /\ providers' = live
        /\ initialized' = (initialized \/ persist)
        /\ \E out \in {set_key(live, persist, F, beh)} :
              /\ ret' = out.ret
              /\ calls' = out.calls
        /\ op' = OpRecord("set_key", k, v, persist, F, None, NoKind, keys[k], FALSE)
        /\ constructed' = IF persist THEN ConstructedBy(registry, initialized, constructed)
                          ELSE constructed
        /\ UNCHANGED <<registry, environ, listed, instance, allocated, threads>>

\* keys.enable_provider(n) (flag TRUE) and keys.disable_provider(n) (FALSE);
\* op.kind keeps the classes whose constructor succeeds in the
\* re-initialization
SetProviderEnabled(n, flag, ok) ==
    LET found == FindByName(registry, n, 1) # 0
        reg == SetEnabled(registry, n, flag)
    IN  /\ op = Idle
        /\ registry' = reg
        /\ initialized' = IF found THEN TRUE ELSE initialized
        /\ providers' = IF found THEN initialize_providers(reg, ok) ELSE providers
        /\ ret' = IF found THEN PyTrue ELSE PyFalse
        /\ calls' = <<>>
        /\ op' = OpRecord(IF flag THEN "enable_provider" ELSE "disable_provider",
                          None, None, FALSE, NoFilter, n,
                          IF found THEN ok ELSE NoKind, None, FALSE)
        /\ constructed' = IF found THEN ConstructedBy(reg, FALSE, NoneConstructed)
                          ELSE constructed
        /\ UNCHANGED <<keys, environ, listed, instance, allocated, threads>>

\* keys.register_provider(p), p an instance of the decorated class c
RegisterProvider(c, ok) ==
    LET live == Initialized(registry, initialized, providers, ok)
    IN  /\ op = Idle
        /\ c \in RegisteredKinds(registry)
        /\ providers' = WithProvider(live, ManualInstance(c))
        /\ initialized' = TRUE
        /\ ret' = None
        /\ calls' = <<>>
        /\ op' = OpRecord("register_provider", None, None, FALSE, NoFilter, None, {c},
                          None, FALSE)
        /\ constructed' = ConstructedBy(registry, initialized, constructed)
        /\ UNCHANGED <<registry, keys, environ, listed, instance, allocated, threads>>

\* KeyManager(): a construction of the manager somewhere in the process
Construct ==
    /\ op = Idle
    /\ instance' = New(instance, allocated).instance
    /\ allocated' = New(instance, allocated).allocated
    /\ ret' = New(instance, allocated).instance
    /\ calls' = <<>>
    /\ op' = OpRecord("KeyManager", None, None, FALSE, NoFilter, None, NoKind, None, FALSE)
    /\ UNCHANGED <<registry, initialized, providers, keys, environ, listed, constructed,
                 threads>>

\* The constructor outcomes that matter to enable/disable of name n
FactoryOutcomesAfter(n, flag) ==
    IF FindByName(registry, n, 1) = 0 THEN {{}}
    ELSE FactoryOutcomes(SetEnabled(registry, n, flag), FALSE)

\* The values a caller can set
SetValues == Secrets \cup {""}

\* The calls the caller can make when it is between two calls
CallerIdle == op = Idle

Next ==
    \/ CallerIdle /\ \E c \in Kinds, enabled \in BOOLEAN : KeyProvider(c, enabled)
    \/ CallerIdle /\ \E k \in KeyNames, F \in Filters,
                        ok \in FactoryOutcomes(registry, initialized) :
         \E w \in ResponsesFor(Initialized(registry, initialized, providers, ok), keys, k, F) :
            GetKey(k, F, ok,
                   AsResponses(Candidates(Initialized(registry, initialized, providers, ok), F), w))
    \/ GetKeyAgain
    \/ CallerIdle /\ \E k \in KeyNames, v \in SetValues : SetKey(k, v, FALSE, NoFilter, {}, <<>>)
    \/ CallerIdle /\ \E n \in FilterNames, flag \in BOOLEAN :
         \E ok \in FactoryOutcomesAfter(n, flag) : SetProviderEnabled(n, flag, ok)
    \/ CallerIdle /\ \E c \in Kinds, ok \in FactoryOutcomes(registry, initialized) :
         RegisterProvider(c, ok)
    \/ Construct
    \/ Return

Spec == Init /\ [][Next]_vars

\* The inputs of set_key(k, v, persist=True, providers=F) in a state
PersistInputs(F, ok) ==
    LET n == Len(Candidates(Initialized(registry, initialized, providers, ok), F))
    IN  IF n <= MaxCandidates THEN WriteWalksOfLength(n) ELSE {}

\* The persistence path of set_key, under every behaviour of the candidates
NextSet ==
    \/ CallerIdle /\ \E c \in Kinds, enabled \in BOOLEAN : KeyProvider(c, enabled)
    \/ CallerIdle /\ \E k \in KeyNames, v \in SetValues, F \in Filters,
                        ok \in FactoryOutcomes(registry, initialized) :
         \E beh \in PersistInputs(F, ok) : SetKey(k, v, TRUE, F, ok, beh)
    \/ CallerIdle /\ \E k \in KeyNames, v \in SetValues, F \in Filters :
         \E beh \in PersistInputs(F, {}) : SetKey(k, v, FALSE, F, {}, beh)
    \/ Return

SpecSet == Init /\ [][NextSet]_vars

\* The inputs of a get_key(k, providers=F) in a state
GetInputs(k, F, ok) ==
    LET live == Initialized(registry, initialized, providers, ok)
    IN  {AsResponses(Candidates(live, F), w) : w \in ResponsesFor(live, keys, k, F)}

\* Calls made in direct succession: a get_key right after a set_key, and
\* right after an enable_provider or disable_provider
NextThen ==
    \/ CallerIdle /\ \E c \in Kinds, enabled \in BOOLEAN : KeyProvider(c, enabled)
    \/ CallerIdle /\ \E k \in KeyNames, F \in Filters,
                        ok \in FactoryOutcomes(registry, initialized) :
         \E resp \in GetInputs(k, F, ok) : GetKey(k, F, ok, resp)
    \/ CallerIdle /\ \E k \in KeyNames, v \in SetValues : SetKey(k, v, FALSE, NoFilter, {}, <<>>)
    \/ CallerIdle /\ \E n \in FilterNames, flag \in BOOLEAN :
         \E ok \in FactoryOutcomesAfter(n, flag) : SetProviderEnabled(n, flag, ok)
    \/ op.name = "set_key" /\ \E F \in Filters, ok \in FactoryOutcomes(registry, initialized) :
         \E resp \in GetInputs(op.key, F, ok) : GetKeyAfterSet(F, ok, resp)
    \/ op.name \in {"enable_provider", "disable_provider"}
         /\ \E k \in KeyNames, ok \in FactoryOutcomes(registry, initialized) :
               \E resp \in GetInputs(k, NoFilter, ok) : GetKeyAfterToggle(k, ok, resp)
    \/ Return

SpecThen == Init /\ [][NextThen]_vars

-----------------------------------------------------------------------------
(* get_registered_providers and the initialization by themselves, on every  *)
(* registry content                                                         *)

\* Priorities a class can be registered with
SomePriorities == {10, 20, 30}

\* The registries of n classes: class i is the i-th key of the dict
RegistriesOf(n) ==
    {[i \in 1..n |-> [cls |-> i, enabled |-> f[i], priority |-> q[i], name |-> KindName(i)]] :
        f \in [1..n -> BOOLEAN], q \in [1..n -> SomePriorities]}

InitSort ==
    /\ registry \in UNION {RegistriesOf(n) : n \in 0..MaxDescriptors}
    /\ initialized = FALSE
    /\ providers = <<>>
    /\ keys = [k \in KeyNames |-> Absent]
    /\ environ = [k \in KeyNames |-> Absent]
    /\ op = Idle
    /\ ret = None
    /\ calls = <<>>
    /\ listed = <<>>
    /\ instance = ModuleManager
    /\ allocated = 1
    /\ constructed = NoneConstructed
    /\ threads = NoThreads

\* get_registered_providers()
ListProviders ==
    /\ op = Idle
    /\ listed' = get_registered_providers(registry)
    /\ op' = OpRecord("get_registered_providers", None, None, FALSE, NoFilter, None,
                      NoKind, None, FALSE)
    /\ ret' = None
    /\ calls' = <<>>
    /\ UNCHANGED <<registry, initialized, providers, keys, environ, instance, allocated,
                 constructed, threads>>

\* The first keys._initialize() of the manager; ok, the classes whose
\* constructor does not raise, is kept in op.kind
InitializeManager(ok) ==
    /\ op = Idle
    /\ ~initialized
    /\ providers' = Initialized(registry, initialized, providers, ok)
    /\ initialized' = TRUE
    /\ op' = OpRecord("_initialize", None, None, FALSE, NoFilter, None, ok, None, FALSE)
    /\ ret' = None
    /\ calls' = <<>>
    /\ constructed' = ConstructedBy(registry, initialized, constructed)
    /\ UNCHANGED <<registry, keys, environ, listed, instance, allocated, threads>>

NextSort ==
    \/ ListProviders
    \/ \E ok \in SUBSET RegisteredKinds(registry) : InitializeManager(ok)
    \/ Return

SpecSort == InitSort /\ [][NextSort]_vars

-----------------------------------------------------------------------------
(* Properties of get_key *)

\* The call that has just returned is a get_key
IsGet == op.name = "get_key"

\* The key of that get_key was not in the cache, or was there as ""
Uncached == op.cached \in {Absent, ""}

\* The candidates of the call that has just returned
ActiveNow == Candidates(providers, op.filter)

\* Every candidate was asked
AllAsked == Len(calls) = Len(ActiveNow)

\* The walk of get_key: the candidates are asked from the head of the list,
\* one call each, no value before the last call, and the call returns the
\* value of the last call if it is one, None after the whole list otherwise.
WalkStopsAtFirstValue ==
    /\ Len(calls) <= Len(ActiveNow)
    /\ \A i \in 1..Len(calls) :
          calls[i].m = "get_key" /\ calls[i].cls = ActiveNow[i].cls
    /\ \A i, j \in 1..Len(calls) : i # j => calls[i].cls # calls[j].cls
    /\ \A i \in 1..(Len(calls) - 1) : calls[i].r \notin Secrets
    /\ IF calls # <<>> /\ calls[Len(calls)].r \in Secrets
       THEN ret = calls[Len(calls)].r
       ELSE ret = None /\ AllAsked

SecondGet == op'.name = "get_key" /\ op'.again

C3_CacheHitAsksNobody ==
    (IsGet /\ op.cached \in Secrets) => ret = op.cached /\ calls = <<>>

\* A get_key answered from the cache with candidates at hand
C3_Witness ==
    /\ IsGet /\ ~op.again
    /\ op.cached \in Secrets /\ ret = op.cached
    /\ Len(ActiveNow) >= 2

\* A provider outside the filter of the call was asked
AskedOutsideFilter == \E i \in 1..Len(calls) : calls[i].name \notin op.filter

\* C4 as stated: for every filter list F, get_key(k, providers=F) on an
\* uncached key asks no provider whose name is not in F.
C4_AnyFilterRestricts ==
    (IsGet /\ Uncached /\ op.filter # NoFilter) => ~AskedOutsideFilter

\* C4: for every non-empty filter list F, get_key(k, providers=F) on an
\* uncached key asks no provider whose name is not in F (an empty list is
\* no filter).
C4_FilterRestricts ==
    (IsGet /\ Uncached /\ op.filter # NoFilter /\ op.filter # {}) => ~AskedOutsideFilter

\* A filtered get_key that asked a provider and left a live one outside the
\* filter alone
C4_Witness ==
    /\ IsGet /\ Uncached
    /\ op.filter = {"p2"}
    /\ calls # <<>>
    /\ \E i \in 1..Len(providers) : providers[i].name \notin op.filter
    /\ ret = None

\* The calls of the call, with None in the place of every response m
CallsWithNone(m) ==
    [i \in 1..Len(calls) |-> [calls[i] EXCEPT !.r = IF @ = m THEN None ELSE @]]

\* What the call does, from the state it was made in, when the providers
\* that answered m answer None
Replayed(m) ==
    get_key(providers, [keys EXCEPT ![op.key] = op.cached], environ, op.key, op.filter,
            ResponsesIn(CallsWithNone(m)))

\* A provider answered m, and the call came out as it does when the providers
\* that answered m answer None: same result, same cache and environment,
\* same providers asked
SameAsNone(m) ==
    (\E i \in 1..Len(calls) : calls[i].r = m) =>
        Replayed(m) = [ret |-> ret, calls |-> CallsWithNone(m), keys |-> keys,
                       environ |-> environ]

\* The walk went on behind every provider that answered m
WentOnAfter(m) ==
    \A i \in 1..Len(calls) : calls[i].r = m => (i < Len(calls) \/ (ret = None /\ AllAsked))

\* C8: get_key never returns "": its result is a non-empty value or None. A
\* provider that answers "" is taken as one that has nothing: the walk goes
\* on with the next provider and "" is not cached.
C8_EmptyIsAbsent ==
    IsGet =>
        /\ ret \in Secrets \cup {None}
        /\ WentOnAfter("")
        /\ keys[op.key] = "" => op.cached = ""
        /\ SameAsNone("")

\* A get_key that got "" from a provider and a value from a later one
C8_Witness ==
    /\ IsGet /\ Uncached
    /\ \E i \in 1..(Len(calls) - 1) : calls[i].r = ""
    /\ ret \in Secrets

\* C9: an exception of a provider's get_key does not leave the manager's
\* get_key: the walk goes on with the next provider and the call comes out
\* as it does when that provider returns None.
C9_RaiseIsAbsent ==
    IsGet =>
        /\ ret # RAISE
        /\ WentOnAfter(RAISE)
        /\ keys[op.key] # RAISE /\ environ[op.key] # RAISE
        /\ SameAsNone(RAISE)

\* A get_key that got an exception from a provider and a value from a later
\* one
C9_Witness ==
    /\ IsGet /\ Uncached
    /\ \E i \in 1..(Len(calls) - 1) : calls[i].r = RAISE
    /\ ret \in Secrets

\* A get_key is made on a key the cache has no value for, and every provider
\* it asks has nothing
MissingEverywhere ==
    /\ op'.name = "get_key"
    /\ keys[op'.key] \notin Secrets
    /\ \A i \in 1..Len(calls') : calls'[i].r \in Misses

\* C10: when the key is not cached and every candidate answers None, "" or
\* raises, get_key returns None, raises nothing and leaves the cache and the
\* environment as they were; the miss is not cached, the same get_key made
\* again asks the same providers again.
C10_MissLeavesNoTrace ==
    [][MissingEverywhere =>
          /\ ret' = None
          /\ keys' = keys /\ environ' = environ
          /\ Len(calls') = Len(Candidates(providers', op'.filter))
          /\ op'.again => calls' = calls]_vars

\* The second get_key in a row asked two providers again and found nothing
C10_Witness ==
    /\ IsGet /\ op.again
    /\ ret = None /\ Len(calls) >= 2
    /\ \E i \in 1..Len(calls) : calls[i].r = RAISE
    /\ keys[op.key] = Absent /\ environ[op.key] = Absent

-----------------------------------------------------------------------------
(* Properties of set_key *)

IsSet == op.name = "set_key"

\* write_key was called on a provider
WriteAttempted == \E i \in 1..Len(calls) : calls[i].m = "write_key"

\* C5: set_key(k, v, persist=False) returns True and calls write_key on no
\* provider.
C5_NoPersistNoWrite ==
    (IsSet /\ ~op.persist) => ret = PyTrue /\ ~WriteAttempted

\* A set_key without persistence, with candidates at hand
C5_Witness ==
    /\ IsSet /\ ~op.persist
    /\ ActiveNow # <<>>
    /\ keys[op.key] = op.value /\ ret = PyTrue

\* The candidate of class c is eligible: supports_write() was true and
\* validate_key, where the provider has one, did not reject the key
Eligible(c) ==
    /\ \E i \in 1..Len(ActiveNow) : ActiveNow[i].cls = c
    /\ \E i \in 1..Len(calls) :
          calls[i].cls = c /\ calls[i].m = "supports_write" /\ calls[i].r = PyTrue
    /\ \A i \in 1..Len(calls) :
          (calls[i].cls = c /\ calls[i].m = "validate_key") => calls[i].r = PyTrue

\* The write_key of an eligible candidate returned True
EligibleWrote ==
    \E i \in 1..Len(calls) :
        calls[i].m = "write_key" /\ calls[i].r = PyTrue /\ Eligible(calls[i].cls)

-----------------------------------------------------------------------------
(* Properties of get_registered_providers *)

IsListing == op.name = "get_registered_providers"

\* Where the descriptor of class c is in the registry
RegistryPosition(c) == CHOOSE i \in 1..Len(registry) : registry[i].cls = c

\* C7: get_registered_providers() returns the descriptors of the registry in
\* ascending priority; descriptors of equal priority keep the order they
\* have in the registry.
C7_SortedAndStable ==
    IsListing =>
        /\ Len(listed) = Len(registry)
        /\ \A i \in 1..Len(registry) : \E j \in 1..Len(listed) : listed[j] = registry[i]
        /\ \A i, j \in 1..Len(listed) :
              i < j => /\ listed[i].priority <= listed[j].priority
                       /\ listed[i].priority = listed[j].priority =>
                             RegistryPosition(listed[i].cls) < RegistryPosition(listed[j].cls)

\* A listing of three descriptors that had to be reordered and has a tie
C7_Witness ==
    /\ IsListing
    /\ Len(listed) = 3 /\ listed # registry
    /\ \E i \in 1..2 : listed[i].priority = listed[i + 1].priority

-----------------------------------------------------------------------------
(* Properties of set_key and the cache *)

\* C11: after set_key(k, v, persist, F), whatever it returned (True, False
\* or an exception) and whatever the providers did, the cache maps k to v.
C11_SetAlwaysCaches ==
    IsSet => keys[op.key] = op.value

\* A persisting set_key of "" over a cached value whose one write failed
C11_Witness ==
    /\ IsSet /\ op.persist /\ ret = PyFalse
    /\ WriteAttempted
    /\ op.cached \in Secrets /\ op.value = "" /\ keys[op.key] = ""

\* The get_key that has just returned was made right after a set_key of
\* the same key
AfterSet == IsGet /\ op.after.name = "set_key"

\* C12 as stated: for every string v, the get_key(k) right after
\* set_key(k, v) returns v, whatever the providers hold.
C12_SetThenGetAnyValue ==
    AfterSet => ret = op.after.value

\* C12: for every non-empty string v, the get_key(k) right after
\* set_key(k, v) returns v and asks no provider, whatever the providers
\* hold; after set_key(k, "") it is answered by the providers as for a key
\* that is not cached, and never returns "".
C12_SetThenGet ==
    AfterSet =>
        IF op.after.value # ""
        THEN ret = op.after.value /\ calls = <<>>
        ELSE ret \in Secrets \cup {None} /\ WalkStopsAtFirstValue

\* A get_key right after a set_key of a value, answered with that value
\* while a provider was at hand
C12_Witness ==
    /\ AfterSet
    /\ op.after.value \in Secrets /\ ret = op.after.value
    /\ ActiveNow # <<>>

\* No supports_write() and no validate_key() of the call raised
NothingPropagated ==
    \A i \in 1..Len(calls) :
        calls[i].m \in {"supports_write", "validate_key"} => calls[i].r # RAISE

\* The loop of set_key came to the candidate behind position i, if there is
\* one
CameToNextAfter(i) ==
    i < Len(ActiveNow) =>
        \E j \in 1..Len(calls) :
            calls[j].cls = ActiveNow[i + 1].cls /\ calls[j].m = "supports_write"

\* C13: in set_key with persist=True, a write-capable provider whose
\* validate_key(k, v) returns False gets no write_key call and does not end
\* the call: the loop goes on to the candidates behind it, and the result is
\* True when an eligible one of them writes successfully (and no
\* supports_write() or validate_key() raises).
C13_InvalidIsSkipped ==
    (IsSet /\ op.persist) =>
        \A i \in 1..Len(ActiveNow) :
            (\E j \in 1..Len(calls) :
                /\ calls[j].cls = ActiveNow[i].cls
                /\ calls[j].m = "validate_key" /\ calls[j].r = PyFalse)
            => /\ \A j \in 1..Len(calls) :
                     calls[j].cls = ActiveNow[i].cls => calls[j].m # "write_key"
               /\ CameToNextAfter(i)
               /\ NothingPropagated => /\ ret \in {PyTrue, PyFalse}
                                       /\ EligibleWrote => ret = PyTrue

\* A persisting set_key whose first candidate failed validation and whose
\* second candidate wrote the key: the result is True
C13_Witness ==
    /\ IsSet /\ op.persist /\ ret = PyTrue
    /\ \E i, j \in 1..Len(calls) :
          /\ i < j
          /\ calls[i].m = "validate_key" /\ calls[i].r = PyFalse
          /\ calls[j].m = "write_key" /\ calls[j].r = PyTrue
          /\ calls[i].cls # calls[j].cls

-----------------------------------------------------------------------------
(* Properties of enable_provider and disable_provider *)

Toggles == {"enable_provider", "disable_provider"}

\* The position in the registry reg of the first descriptor named n
FirstNamed(reg, n) ==
    CHOOSE i \in 1..Len(reg) : reg[i].name = n /\ \A j \in 1..(i - 1) : reg[j].name # n

\* The live list is one registry-built instance for every enabled descriptor
\* whose class is in built, in ascending priority, ties in registry order
LiveIsBuiltFrom(built) ==
    /\ \A i \in 1..Len(providers) :
          /\ ~providers[i].manual
          /\ \E j \in 1..Len(registry) :
                /\ registry[j].cls = providers[i].cls
                /\ registry[j].name = providers[i].name
                /\ registry[j].priority = providers[i].priority
    /\ {providers[i].cls : i \in 1..Len(providers)}
          = {registry[j].cls : j \in {x \in 1..Len(registry) :
                                        registry[x].enabled /\ registry[x].cls \in built}}
    /\ \A i, j \in 1..Len(providers) :
          i < j => /\ providers[i].cls # providers[j].cls
                   /\ providers[i].priority <= providers[j].priority
                   /\ providers[i].priority = providers[j].priority =>
                         RegistryPosition(providers[i].cls) < RegistryPosition(providers[j].cls)

\* C14: enable_provider(n) and disable_provider(n) with a name no descriptor
\* carries return False, raise nothing, and leave the descriptors' flags,
\* the live list, the initialized flag and the cache as they were.
C14_UnknownNameChangesNothing ==
    [][(op'.name \in Toggles /\ \A i \in 1..Len(registry) : registry[i].name # op'.target)
         => /\ ret' = PyFalse
            /\ registry' = registry
            /\ providers' = providers /\ initialized' = initialized
            /\ keys' = keys /\ environ' = environ]_vars

\* An enable_provider of an unknown name on a manager that is not
\* initialized, with descriptors registered under other names
C14_Witness ==
    /\ op.name = "enable_provider" /\ ret = PyFalse
    /\ ~initialized /\ providers = <<>>
    /\ Len(registry) >= 2
    /\ \E i \in 1..Len(registry) : ~registry[i].enabled

\* C15: after enable_provider(n) (disable_provider(n)) returned True, the
\* first descriptor named n is enabled (disabled), no other descriptor has
\* changed, and the manager is initialized with a live list of one instance
\* for every enabled descriptor whose constructor succeeds, in ascending
\* priority: the list the next get_key, set_key or get_providers works on.
C15_ToggleSetsFlagAndRebuilds ==
    [][(op'.name \in Toggles /\ ret' = PyTrue)
         => /\ \E i \in 1..Len(registry) : registry[i].name = op'.target
            /\ registry' = [registry EXCEPT ![FirstNamed(registry, op'.target)].enabled =
                                                (op'.name = "enable_provider")]
            /\ initialized'
            /\ LiveIsBuiltFrom(op.kind)']_vars

\* A disable_provider that returned True while a second descriptor of the
\* same name stays enabled and live, behind a provider of lower priority
\* number
C15_Witness ==
    /\ op.name = "disable_provider" /\ ret = PyTrue
    /\ Len(providers) >= 2
    /\ \E i \in 1..Len(providers) : providers[i].name = op.target
    /\ \E i \in 1..Len(registry) : registry[i].name = op.target /\ ~registry[i].enabled

\* C16: enable_provider and disable_provider never touch the cache (or the
\* environment): a value get_key resolved from a provider stays cached when
\* that provider is disabled, and the get_key right after the call returns
\* the cached value and asks no provider.
C16_ToggleKeepsCache ==
    [][/\ op'.name \in Toggles => keys' = keys /\ environ' = environ
       /\ (op.name \in Toggles /\ op'.name = "get_key" /\ keys[op'.key] \in Secrets)
            => ret' = keys[op'.key] /\ calls' = <<>> /\ keys' = keys]_vars

\* A get_key right after the disable_provider that left no provider live,
\* answered with the value a provider had resolved before
C16_Witness ==
    /\ IsGet /\ op.after.name = "disable_provider" /\ op.after.ret = PyTrue
    /\ providers = <<>>
    /\ ret \in Secrets /\ calls = <<>>
    /\ keys[op.key] = ret /\ environ[op.key] = ret

\* The get_key that has just returned was made on a key that is not cached,
\* right after an enable_provider (on TRUE) or disable_provider (on FALSE)
\* that returned True
AfterToggle(flag) ==
    /\ IsGet /\ Uncached
    /\ op.after.name = (IF flag THEN "enable_provider" ELSE "disable_provider")
    /\ op.after.ret = PyTrue

\* No provider named otherwise than the toggled name has a value for the key
OnlyNamedHolds ==
    \A i \in 1..Len(calls) : calls[i].name # op.after.target => calls[i].r \in Misses

\* The class of the first descriptor of the toggled name
ToggledKind == registry[FirstNamed(registry, op.after.target)].cls

\* No provider of another class than the toggled descriptor's has a value
OnlyToggledHolds ==
    \A i \in 1..Len(calls) : calls[i].cls # ToggledKind => calls[i].r \in Misses

-----------------------------------------------------------------------------
(* Properties of the initialization and of register_provider *)

\* C18: the initialization builds one instance for every enabled descriptor
\* whose constructor does not raise, in ascending priority (ties in registry
\* order), and raises nothing: a descriptor whose constructor raises is
\* skipped, the others are still built; no disabled descriptor is built.
C18_InitializationBuildsEnabled ==
    op.name = "_initialize" =>
        /\ initialized
        /\ ret = None
        /\ LiveIsBuiltFrom(op.kind)

\* An initialization over three descriptors: one is built, the constructor of
\* an enabled one raised, and a disabled one was left alone
C18_Witness ==
    /\ op.name = "_initialize"
    /\ Len(registry) = 3 /\ Len(providers) = 1
    /\ \E i \in 1..3 : registry[i].enabled /\ registry[i].cls \notin op.kind
    /\ \E i \in 1..3 : ~registry[i].enabled /\ registry[i].cls \in op.kind

\* The live list register_provider looks at: the list as it was, or, on a
\* manager that was not initialized, the instances the call has built first
ListBeforeRegister ==
    IF initialized THEN providers ELSE SelectSeq(providers', LAMBDA q : ~q.manual)

\* C19: register_provider(p) with a name a live instance carries changes
\* nothing in the live list (the first registrant keeps the name); with a
\* name no live instance carries, p is added at the end of the live list,
\* once.
C19_RegisterOncePerName ==
    [][op'.name = "register_provider" =>
          \A c \in op'.kind :
              /\ IF \E i \in 1..Len(ListBeforeRegister) :
                        ListBeforeRegister[i].name = KindName(c)
                 THEN providers' = ListBeforeRegister
                 ELSE providers' = Append(ListBeforeRegister, ManualInstance(c))
              /\ Cardinality({i \in 1..Len(providers') :
                                 providers'[i] = ManualInstance(c)}) <= 1
              /\ Cardinality({i \in 1..Len(providers') :
                                 providers'[i].name = KindName(c)}) >= 1]_vars

\* A register_provider that added its instance behind two live ones
C19_Witness ==
    /\ op.name = "register_provider"
    /\ Len(providers) = 3
    /\ providers[3].manual /\ providers[3].cls \in op.kind
    /\ ~providers[1].manual /\ ~providers[2].manual

-----------------------------------------------------------------------------
(* Properties of the manager object *)

\* C20: the process has one manager: every KeyManager() returns the object
\* the module made for `keys`, no second object is ever made, and so the
\* cache and the live list reached through any reference are the same ones.
C20_OneManager ==
    /\ instance = ModuleManager
    /\ allocated = 1
    /\ op.name = "KeyManager" => ret = ModuleManager

\* A KeyManager() made after the manager has cached a value and built a
\* live list: it returns the module's object
C20_Witness ==
    /\ op.name = "KeyManager" /\ ret = ModuleManager
    /\ initialized /\ providers # <<>>
    /\ \E k \in KeyNames : keys[k] \in Secrets

-----------------------------------------------------------------------------
(* get_provider_status, get_providers and get_writable_providers *)

\* A non-empty dict returned by get_provider_info()
Capabilities == "capabilities"

\* The empty dict {}
EmptyDict == "{}"

\* What the live instance found for a descriptor does in get_provider_status:
\* supports_write (missing, False, True or raising), then get_provider_info
\* (missing, a dict or raising)
StatusBehaviours ==
    {[sup |-> NoAttr, info |-> NoAttr],
     [sup |-> PyFalse, info |-> Capabilities],
     [sup |-> PyTrue, info |-> Capabilities],
     [sup |-> PyTrue, info |-> RAISE],
     [sup |-> RAISE, info |-> NotCalled]}

\* No instance is asked for this descriptor
Unasked == [sup |-> NotCalled, info |-> NotCalled]

\* next((p for p in self._providers if p.name == n), None): the position of
\* the first live instance named n, 0 for None
RECURSIVE FirstLive(_, _, _)
FirstLive(live, n, i) ==
    IF i > Len(live) THEN 0
    ELSE IF live[i].name = n THEN i ELSE FirstLive(live, n, i + 1)

\* The status dict built for descriptor d, b being what the instance found
\* for its name does (Unasked when there is none)
StatusOf(d, b) ==
    [enabled |-> d.enabled, priority |-> d.priority, class |-> d.cls,
     supports_write |-> IF b.sup \in {PyTrue, PyFalse} THEN b.sup ELSE PyFalse,
     capabilities |-> IF b.info = Capabilities THEN b.info ELSE EmptyDict]

\* The calls made on the instance p found for a descriptor; the look-up of a
\* missing method is logged with NoAttr
StatusCalls(p, b) ==
    <<Call(p, "supports_write", b.sup)>>
    \o (IF b.info = NotCalled THEN <<>> ELSE <<Call(p, "get_provider_info", b.info)>>)

\* result[name] = status: a new key is appended, an existing key keeps its
\* position and gets the new value
DictPut(result, n, status) ==
    IF \E j \in 1..Len(result) : result[j].name = n
    THEN [j \in 1..Len(result) |->
            IF result[j].name = n THEN [name |-> n, status |-> status] ELSE result[j]]
    ELSE Append(result, [name |-> n, status |-> status])

\* KeyManager.get_provider_status after its _initialize(): the loop over
\* _PROVIDER_REGISTRY.values() from descriptor i on; beh[i] is what the
\* instance found for descriptor i does. supports_write() is called outside
\* any try block, get_provider_info() inside one. items is the returned dict
\* as the list of its items; ret is RAISE when an exception left the call.
RECURSIVE get_provider_status(_, _, _, _, _, _)
get_provider_status(reg, live, beh, i, result, log) ==
    IF i > Len(reg) THEN [ret |-> None, items |-> result, calls |-> log]
    ELSE LET j == FirstLive(live, reg[i].name, 1)
         IN  IF j = 0
             THEN get_provider_status(reg, live, beh, i + 1,
                        DictPut(result, reg[i].name, StatusOf(reg[i], Unasked)), log)
             ELSE IF beh[i].sup = RAISE
                  THEN [ret |-> RAISE, items |-> <<>>,
                        calls |-> log \o StatusCalls(live[j], beh[i])]
                  ELSE get_provider_status(reg, live, beh, i + 1,
                        DictPut(result, reg[i].name, StatusOf(reg[i], beh[i])),
                        log \o StatusCalls(live[j], beh[i]))

\* The inputs of one get_provider_status(): a behaviour for every descriptor
\* whose name has a live instance, up to the first supports_write() that raises
StatusInputs(reg, live) ==
    {beh \in [1..Len(reg) -> StatusBehaviours \cup {Unasked}] :
        \A i \in 1..Len(reg) :
            (beh[i] = Unasked) <=>
                (\/ FirstLive(live, reg[i].name, 1) = 0
                 \/ \E h \in 1..(i - 1) : beh[h].sup = RAISE)}

\* keys.get_provider_status(); op.kind keeps the classes whose constructor
\* succeeds in the initialization
GetProviderStatus(ok, beh) ==
    LET live == Initialized(registry, initialized, providers, ok)
    IN  /\ op = Idle
        /\ providers' = live
        /\ initialized' = TRUE
        /\ \E out \in {get_provider_status(registry, live, beh, 1, <<>>, <<>>)} :
              /\ ret' = out.ret
              /\ listed' = out.items
              /\ calls' = out.calls
        /\ op' = OpRecord("get_provider_status", None, None, FALSE, NoFilter, None, ok,
                          None, FALSE)
        /\ constructed' = ConstructedBy(registry, initialized, constructed)
        /\ UNCHANGED <<registry, keys, environ, instance, allocated, threads>>

\* The registry, the live list and their status report
NextStatus ==
    \/ CallerIdle /\ \E c \in Kinds, enabled \in BOOLEAN : KeyProvider(c, enabled)
    \/ CallerIdle /\ \E n \in FilterNames, flag \in BOOLEAN :
         \E ok \in FactoryOutcomesAfter(n, flag) : SetProviderEnabled(n, flag, ok)
    \/ CallerIdle /\ \E c \in Kinds, ok \in FactoryOutcomes(registry, initialized) :
         RegisterProvider(c, ok)
    \/ CallerIdle /\ \E ok \in FactoryOutcomes(registry, initialized) :
         \E beh \in StatusInputs(registry, Initialized(registry, initialized, providers, ok)) :
            GetProviderStatus(ok, beh)
    \/ Return

SpecStatus == Init /\ [][NextStatus]_vars

-----------------------------------------------------------------------------
(* Properties of get_provider_status *)

\* The call that has just returned is a get_provider_status that did not raise
IsStatus == op.name = "get_provider_status" /\ ret # RAISE

\* The report has an entry for descriptor i with its flag and its priority
ReportedAs(i) ==
    \E j \in 1..Len(listed) :
        /\ listed[j].name = registry[i].name
        /\ listed[j].status.class = registry[i].cls
        /\ listed[j].status.enabled = registry[i].enabled
        /\ listed[j].status.priority = registry[i].priority

\* What the instances named n answered to method m in the call, the default
\* when none was asked or none gave an answer
AnswersTo(n, m, answers, default) ==
    LET given == {calls[h].r : h \in {x \in 1..Len(calls) :
                        calls[x].name = n /\ calls[x].m = m /\ calls[x].r \in answers}}
    IN  IF given = {} THEN {default} ELSE given

\* The entry e of the report has what the live instance of its name answered
FromInstance(e) ==
    /\ e.status.supports_write \in
            AnswersTo(e.name, "supports_write", {PyTrue, PyFalse}, PyFalse)
    /\ e.status.capabilities \in
            AnswersTo(e.name, "get_provider_info", {Capabilities}, EmptyDict)

\* No live instance has the name of entry e, and e has the defaults
DefaultsIfNoInstance(e) ==
    FirstLive(providers, e.name, 1) = 0 =>
        e.status.supports_write = PyFalse /\ e.status.capabilities = EmptyDict

\* C21 as stated: get_provider_status() reports one entry for every
\* registered descriptor, with that descriptor's enabled flag and priority;
\* supports_write and capabilities are the defaults when no live instance has
\* the name and otherwise what an instance of the name answered; a failed
\* instantiation does not make the call fail.
C21_OneEntryPerDescriptor ==
    /\ IsStatus =>
        /\ Len(listed) = Len(registry)
        /\ \A i \in 1..Len(registry) : ReportedAs(i)
        /\ \A j \in 1..Len(listed) : FromInstance(listed[j]) /\ DefaultsIfNoInstance(listed[j])
    /\ (op.name = "get_provider_status" /\ ret = RAISE) =>
          \E h \in 1..Len(calls) : calls[h].r = RAISE

\* Two descriptors share a display name and a status report is returned
C21_Witness ==
    /\ IsStatus
    /\ \E i, j \in 1..Len(registry) : i < j /\ registry[i].name = registry[j].name
    /\ \E i \in 1..Len(registry) :
          registry[i].enabled /\ FirstLive(providers, registry[i].name, 1) = 0

-----------------------------------------------------------------------------
(* The command-line handlers of secret_key_manager.cli; ret is the exit     *)
(* code the handler returns, op.after the manager call it made              *)

\* `return 0` and `return 1` of a handler
ExitOk == "exit 0"
ExitFail == "exit 1"

\* args.provider: None without --provider, else the non-empty list the
\* action="append" option collects
CliFilters == Filters \ {{}}

\* The manager call a handler made, and what it returned
Inner(name, target, value, r) == [name |-> name, target |-> target, value |-> value, ret |-> r]

\* A handler that reports success whatever the manager returned
ExitAlwaysOk(r) == ExitOk

\* `if key_value: ... return 0 else: ... return 1` of handle_get_command
handle_get_command(r) == IF IsFound(r) THEN ExitOk ELSE ExitFail

\* `if keys.enable_provider(args.name): ... return 0 else: ... return 1`, and
\* the same for disable_provider
handle_providers_toggle_command(r) == IF r = PyTrue THEN ExitOk ELSE ExitFail

\* `get KEY [--provider P]...`: keys.get_key(k, args.provider); on a miss
\* without --provider the handler also calls keys.get_providers() for its
\* log line, which changes nothing after the get_key
CliGet(k, F, ok, resp) ==
    LET live == Initialized(registry, initialized, providers, ok)
    IN  /\ op = Idle
        /\ providers' = live
        /\ initialized' = TRUE
        /\ \E out \in {get_key(live, keys, environ, k, F, resp)} :
              /\ keys' = out.keys
              /\ environ' = out.environ
              /\ ret' = handle_get_command(out.ret)
              /\ calls' = out.calls
              /\ op' = [OpRecord("cli get", k, None, FALSE, F, None, NoKind, keys[k], FALSE)
                          EXCEPT !.after = Inner("get_key", None, None, out.ret)]
        /\ constructed' = ConstructedBy(registry, initialized, constructed)
        /\ UNCHANGED <<registry, listed, instance, allocated, threads>>

\* `providers enable NAME` (flag TRUE) and `providers disable NAME` (FALSE)
CliSetProviderEnabled(n, flag, ok) ==
    LET found == FindByName(registry, n, 1) # 0
        reg == SetEnabled(registry, n, flag)
        name == IF flag THEN "enable_provider" ELSE "disable_provider"
        r == IF found THEN PyTrue ELSE PyFalse
    IN  /\ op = Idle
        /\ registry' = reg
        /\ initialized' = IF found THEN TRUE ELSE initialized
        /\ providers' = IF found THEN initialize_providers(reg, ok) ELSE providers
        /\ ret' = handle_providers_toggle_command(r)
        /\ calls' = <<>>
        /\ op' = [OpRecord(IF flag THEN "cli providers enable" ELSE "cli providers disable",
                           None, None, FALSE, NoFilter, n,
                           IF found THEN ok ELSE NoKind, None, FALSE)
                    EXCEPT !.after = Inner(name, n, None, r)]
        /\ constructed' = IF found THEN ConstructedBy(reg, FALSE, NoneConstructed)
                          ELSE constructed
        /\ UNCHANGED <<keys, environ, listed, instance, allocated, threads>>

\* The look-up and configuration commands, in any order on one manager
NextCli ==
    \/ CallerIdle /\ \E c \in Kinds, enabled \in BOOLEAN : KeyProvider(c, enabled)
    \/ CallerIdle /\ \E k \in KeyNames, F \in CliFilters,
                        ok \in FactoryOutcomes(registry, initialized) :
         \E resp \in GetInputs(k, F, ok) : CliGet(k, F, ok, resp)
    \/ CallerIdle /\ \E n \in FilterNames, flag \in BOOLEAN :
         \E ok \in FactoryOutcomesAfter(n, flag) : CliSetProviderEnabled(n, flag, ok)
    \/ Return

SpecCli == Init /\ [][NextCli]_vars

-----------------------------------------------------------------------------
(* Properties of the command-line handlers *)

\* The get command found the key: it was cached with a non-empty value, or a
\* provider that was asked returned a non-empty value
GetYieldsValue ==
    \/ CacheHit([k \in KeyNames |-> op.cached], op.key)
    \/ \E i \in 1..Len(calls) : calls[i].m = "get_key" /\ calls[i].r \in Secrets

\* C22: `get KEY` exits 0 exactly when get_key yields a non-empty value (from
\* the cache or from a provider that was asked) and 1 otherwise; `providers
\* enable NAME` and `providers disable NAME` exit 0 exactly when a
\* descriptor with the display name NAME is registered, and 1 otherwise.
C22_ExitCodes ==
    /\ op.name = "cli get" =>
          /\ ret \in {ExitOk, ExitFail}
          /\ ret = ExitOk <=> IsFound(op.after.ret)
          /\ ret = ExitOk <=> GetYieldsValue
    /\ op.name \in {"cli providers enable", "cli providers disable"} =>
          /\ ret \in {ExitOk, ExitFail}
          /\ ret = ExitOk <=> \E i \in 1..Len(registry) : registry[i].name = op.target

\* A get that fails after every provider was asked, with descriptors
\* registered that a toggle can name
C22_Witness ==
    /\ op.name = "cli get"
    /\ ret = ExitFail
    /\ Len(calls) >= 2
    /\ \E i \in 1..Len(calls) : calls[i].r = ""
    /\ Len(registry) = NumKinds

-----------------------------------------------------------------------------
(* get_writable_providers and the set command *)

\* KeyManager.get_writable_providers after its _initialize(): the loop over
\* self._providers from position i on; w[i] is what supports_write does on
\* the i-th live instance (NoAttr: hasattr is false). The call is made
\* outside any try block.
RECURSIVE get_writable_providers(_, _, _, _, _)
get_writable_providers(live, w, i, names, log) ==
    IF i > Len(live) THEN [ret |-> None, names |-> names, calls |-> log]
    ELSE IF w[i] = RAISE
         THEN [ret |-> RAISE, names |-> <<>>,
               calls |-> Append(log, Call(live[i], "supports_write", RAISE))]
         ELSE get_writable_providers(live, w, i + 1,
                    IF w[i] = PyTrue THEN Append(names, live[i].name) ELSE names,
                    Append(log, Call(live[i], "supports_write", w[i])))

\* What one live provider does during a set command: w is its answer to
\* the supports_write() of get_writable_providers, b what it does in the
\* loop of set_key afterwards
CliSetBehaviours ==
    {[w |-> NoAttr, b |-> [sup |-> NoAttr, val |-> NotCalled, wr |-> NotCalled]],
     [w |-> PyFalse, b |-> [sup |-> PyFalse, val |-> NotCalled, wr |-> NotCalled]],
     [w |-> PyFalse, b |-> [sup |-> PyTrue, val |-> NoAttr, wr |-> PyTrue]],
     [w |-> RAISE, b |-> [sup |-> RAISE, val |-> NotCalled, wr |-> NotCalled]],
     [w |-> PyTrue, b |-> [sup |-> PyFalse, val |-> NotCalled, wr |-> NotCalled]],
     [w |-> PyTrue, b |-> [sup |-> RAISE, val |-> NotCalled, wr |-> NotCalled]],
     [w |-> PyTrue, b |-> [sup |-> PyTrue, val |-> PyFalse, wr |-> NotCalled]],
     [w |-> PyTrue, b |-> [sup |-> PyTrue, val |-> RAISE, wr |-> NotCalled]]}
    \cup {[w |-> PyTrue, b |-> [sup |-> PyTrue, val |-> PyTrue, wr |-> y]] :
            y \in {PyTrue, PyFalse, RAISE}}

\* The positions of the live list that set_key takes as candidates
CandidatePositions(live, F) ==
    SelectSeq([i \in 1..Len(live) |-> i],
              LAMBDA i : ~FilterGiven(F) \/ live[i].name \in F)

\* What the candidates of set_key do, in the order of the candidates
CandidateBehaviours(live, F, joint) ==
    [j \in 1..Len(CandidatePositions(live, F)) |-> joint[CandidatePositions(live, F)[j]].b]

\* `[p for p in writable_providers if p in args.provider]` when --provider
\* is given
NamedWritable(names, F) ==
    IF F # NoFilter THEN SelectSeq(names, LAMBDA n : n \in F) ELSE names

\* The set_key call of the handler did not happen
NoSetKey == [ret |-> NotCalled, calls |-> <<>>]

\* What a set command did: its exit code (RAISE when an exception left the
\* handler), the list get_writable_providers returned, whether set_key was
\* called, with which persist argument and what it returned, and the
\* provider calls made
SetOutcome(exit, writable, persist, sk, log) ==
    [ret |-> exit, writable |-> writable, set |-> sk.ret # NotCalled, persist |-> persist,
     inner |-> sk.ret, calls |-> log \o sk.calls]

\* `if result or not persist: return 0 else: return 1`
SetExit(result, persist) ==
    IF result = RAISE THEN RAISE
    ELSE IF result = PyTrue \/ ~persist THEN ExitOk ELSE ExitFail

\* A handler without the memory-only fall-back: no writable provider is a
\* failure with and without --provider
handle_set_command_NoFallback(live, no_persist, F, joint) ==
    LET w == [i \in 1..Len(live) |-> joint[i].w]
        wr == get_writable_providers(live, w, 1, <<>>, <<>>)
        named == NamedWritable(wr.names, F)
        sk == set_key(live, ~no_persist, F, CandidateBehaviours(live, F, joint))
    IN  IF no_persist THEN SetOutcome(SetExit(sk.ret, FALSE), <<>>, FALSE, sk, <<>>)
        ELSE IF wr.ret = RAISE THEN SetOutcome(RAISE, <<>>, TRUE, NoSetKey, wr.calls)
        ELSE IF named = <<>> THEN SetOutcome(ExitFail, wr.names, TRUE, NoSetKey, wr.calls)
        ELSE SetOutcome(SetExit(sk.ret, TRUE), wr.names, TRUE, sk, wr.calls)

\* handle_set_command on the live list the manager has when the handler
\* first needs it; joint[i] is what the i-th live provider does
handle_set_command(live, no_persist, F, joint) ==
    LET w == [i \in 1..Len(live) |-> joint[i].w]
        wr == get_writable_providers(live, w, 1, <<>>, <<>>)
        named == NamedWritable(wr.names, F)
        memory == set_key(live, FALSE, F, <<>>)
        sk == set_key(live, TRUE, F, CandidateBehaviours(live, F, joint))
    IN  IF no_persist THEN SetOutcome(SetExit(memory.ret, FALSE), <<>>, FALSE, memory, <<>>)
        ELSE IF wr.ret = RAISE THEN SetOutcome(RAISE, <<>>, TRUE, NoSetKey, wr.calls)
        ELSE IF named = <<>>
             THEN IF F # NoFilter
                  THEN SetOutcome(ExitFail, wr.names, TRUE, NoSetKey, wr.calls)
                  ELSE SetOutcome(SetExit(memory.ret, FALSE), wr.names, FALSE, memory,
                                  wr.calls)
             ELSE SetOutcome(SetExit(sk.ret, TRUE), wr.names, TRUE, sk, wr.calls)

\* The inputs of a set command that asks for persistence, on a live list
\* (with --no-persist no provider is asked anything)
CliSetInputs(live) ==
    IF Len(live) <= MaxCandidates THEN [1..Len(live) -> CliSetBehaviours] ELSE {}

\* `set KEY VALUE [--provider P]... [--no-persist]`; listed keeps the list
\* get_writable_providers returned to the handler, op.after the set_key call
\* the handler made (NoCall if it made none)
CliSet(k, v, no_persist, F, ok, joint) ==
    LET live == IF no_persist THEN providers
                ELSE Initialized(registry, initialized, providers, ok)
    IN  /\ op = Idle
        /\ \E out \in {handle_set_command(live, no_persist, F, joint)} :
              /\ keys' = IF out.set THEN CacheAfterSet(keys, k, v) ELSE keys
              /\ ret' = out.ret
              /\ calls' = out.calls
              /\ listed' = out.writable
              /\ op' = [OpRecord("cli set", k, v, ~no_persist, F, None, NoKind, keys[k],
                                 FALSE)
                          EXCEPT !.after =
                              IF out.set
                              THEN Inner(IF out.persist THEN "set_key(persist=True)"
                                         ELSE "set_key(persist=False)", None, v, out.inner)
                              ELSE NoCall]
        /\ providers' = live
        /\ initialized' = (initialized \/ ~no_persist)
        /\ constructed' = IF no_persist THEN constructed
                          ELSE ConstructedBy(registry, initialized, constructed)
        /\ UNCHANGED <<registry, environ, instance, allocated, threads>>

\* The values a set command is given on the command line
CliValues == {"", "v1"}

\* The set command on every registry, under every behaviour of the providers
NextCliSet ==
    \/ CallerIdle /\ \E c \in Kinds, enabled \in BOOLEAN : KeyProvider(c, enabled)
    \/ CallerIdle /\ \E k \in KeyNames, v \in CliValues, F \in CliFilters,
                        ok \in FactoryOutcomes(registry, initialized) :
         \E joint \in CliSetInputs(Initialized(registry, initialized, providers, ok)) :
            CliSet(k, v, FALSE, F, ok, joint)
    \/ CallerIdle /\ \E k \in KeyNames, v \in CliValues, F \in CliFilters :
         CliSet(k, v, TRUE, F, {}, <<>>)
    \/ Return

SpecCliSet == Init /\ [][NextCliSet]_vars

-----------------------------------------------------------------------------
(* Properties of the set command *)

IsCliSet == op.name = "cli set"

\* --provider is given and no live provider it names answered that it
\* supports writing
NoNamedWritable ==
    /\ op.filter # NoFilter
    /\ \A i \in 1..Len(calls) :
          (calls[i].m = "supports_write" /\ calls[i].name \in op.filter
              /\ (\A h \in 1..(i - 1) : calls[h].cls # calls[i].cls \/ calls[h].name # calls[i].name))
            => calls[i].r # PyTrue

\* The handler called set_key with persist=True and it returned False
PersistReturnedFalse ==
    op.after.name = "set_key(persist=True)" /\ op.after.ret = PyFalse

\* No live provider at all answered that it supports writing, and there is
\* no --provider
NoneWritableUnfiltered ==
    /\ op.filter = NoFilter
    /\ \A i \in 1..Len(calls) : calls[i].m = "supports_write" => calls[i].r # PyTrue

\* The key went into the cache and no provider was asked to store it
MemoryOnly ==
    /\ keys[op.key] = op.value
    /\ op.after.name = "set_key(persist=False)"
    /\ \A i \in 1..Len(calls) : calls[i].m # "write_key"

\* What C23 says of a set command that has ended
SetExitAsStated ==
    /\ ret \in {ExitOk, ExitFail}
    /\ ret = ExitFail <=> (op.persist /\ (NoNamedWritable \/ PersistReturnedFalse))
    /\ (op.persist /\ NoneWritableUnfiltered) => (ret = ExitOk /\ MemoryOnly)
    /\ ~op.persist => ret = ExitOk

\* A supports_write() or validate_key() raised during the command
SomeCheckRaised ==
    \E i \in 1..Len(calls) : calls[i].m \in {"supports_write", "validate_key"}
                              /\ calls[i].r = RAISE

-----------------------------------------------------------------------------
(* ensure_key *)

\* An ensure_key that reports every key as available
ensure_key_AlwaysTrue(r) == PyTrue

\* `if not key: ... return False` / `return True` on what get_key returned
ensure_key(r) == IF IsFound(r) THEN PyTrue ELSE PyFalse

\* keys.ensure_key(k, providers=F): _initialize(), then self.get_key(k, F);
\* on a miss it reads self.get_providers() (when F is None) or F for its log
\* line. op.after is the get_key call it made.
EnsureKey(k, F, ok, resp) ==
    LET live == Initialized(registry, initialized, providers, ok)
    IN  /\ op = Idle
        /\ providers' = live
        /\ initialized' = TRUE
        /\ \E out \in {get_key(live, keys, environ, k, F, resp)} :
              /\ keys' = out.keys
              /\ environ' = out.environ
              /\ ret' = ensure_key(out.ret)
              /\ calls' = out.calls
              /\ op' = [OpRecord("ensure_key", k, None, FALSE, F, None, NoKind, keys[k], FALSE)
                          EXCEPT !.after = Inner("get_key", None, None, out.ret)]
        /\ constructed' = ConstructedBy(registry, initialized, constructed)
        /\ UNCHANGED <<registry, listed, instance, allocated, threads>>

\* ensure_key on every registry and cache content
NextEnsure ==
    \/ CallerIdle /\ \E c \in Kinds, enabled \in BOOLEAN : KeyProvider(c, enabled)
    \/ CallerIdle /\ \E k \in KeyNames, v \in SetValues : SetKey(k, v, FALSE, NoFilter, {}, <<>>)
    \/ CallerIdle /\ \E k \in KeyNames, F \in Filters,
                        ok \in FactoryOutcomes(registry, initialized) :
         \E resp \in GetInputs(k, F, ok) : EnsureKey(k, F, ok, resp)
    \/ Return

SpecEnsure == Init /\ [][NextEnsure]_vars

-----------------------------------------------------------------------------
(* Properties of ensure_key *)

\* C24: ensure_key(k, F) returns True exactly when get_key(k, F) yields a
\* non-empty value, from the cache or from a provider that was asked, and
\* False otherwise; it does not raise; the cache entry of k afterwards is the
\* value found, and on a miss what it was before the call.
C24_EnsureIsGet ==
    op.name = "ensure_key" =>
        /\ ret \in {PyTrue, PyFalse}
        /\ ret = PyTrue <=> IsFound(op.after.ret)
        /\ ret = PyTrue <=> GetYieldsValue
        /\ keys[op.key] = IF ret = PyTrue THEN op.after.ret ELSE op.cached
        /\ Len(calls) > 0 /\ calls[Len(calls)].r \in Secrets => keys[op.key] = calls[Len(calls)].r

\* A miss on a cached empty string after a provider raised and another
\* answered None
C24_Witness ==
    /\ op.name = "ensure_key"
    /\ ret = PyFalse
    /\ op.cached = ""
    /\ \E i, j \in 1..Len(calls) : calls[i].r = RAISE /\ calls[j].r = None

-----------------------------------------------------------------------------
(* The display name the KeyProvider decorator gives a class. A string is a  *)
(* sequence of characters. In the other specifications a class is known by  *)
(* the display name it has got (KindNames).                                 *)

\* "KeyProvider"
Suffix == <<"K", "e", "y", "P", "r", "o", "v", "i", "d", "e", "r">>

\* The 11 of `provider_name[:-11]`
SuffixLength == 11

\* str.lower() on one character, for the letters used in the names below
LowerChar(ch) ==
    CASE ch = "K" -> "k"
      [] ch = "P" -> "p"
      [] ch = "V" -> "v"
      [] OTHER -> ch

\* str.lower()
Lower(s) == [i \in 1..Len(s) |-> LowerChar(s[i])]

\* s.endswith(t)
EndsWith(s, t) == Len(s) >= Len(t) /\ SubSeq(s, Len(s) - Len(t) + 1, Len(s)) = t

\* The decorator is used without name=
NoName == <<None>>

\* `name or cls.__name__`: the class name also stands in for name=""
NameOrClass(name, clsname) == IF name = NoName \/ name = <<>> THEN clsname ELSE name

\* provider_name in the decorator: name or cls.__name__, and when that ends
\* with "KeyProvider", whichever of the two it is, its first len - 11
\* characters in lower case
provider_name(name, clsname) ==
    IF EndsWith(NameOrClass(name, clsname), Suffix)
    THEN Lower(SubSeq(NameOrClass(name, clsname), 1,
                      Len(NameOrClass(name, clsname)) - SuffixLength))
    ELSE NameOrClass(name, clsname)

\* Class names: "VaKeyProvider", "Va", "KeyProvider", "vakeyprovider"
ClassNames ==
    {<<"V", "a">> \o Suffix, <<"V", "a">>, Suffix, <<"v", "a">> \o Lower(Suffix)}

\* name= arguments: none, "", "Va", "va" and "VKeyProvider"
GivenNames == {NoName, <<>>, <<"V", "a">>, <<"v", "a">>, <<"V">> \o Suffix}

\* Largest registry the decorator is explored on with the names spelled out
MaxNamed == 2

\* @KeyProvider(enabled=, priority=, name=) applied to a class named clsname,
\* with every argument kept in op
KeyProviderNamed(clsname, enabled, priority, name) ==
    /\ op = Idle
    /\ \/ Len(registry) < MaxNamed
       \/ \E i \in 1..Len(registry) : registry[i].cls = clsname
    /\ registry' = RegistryPut(registry, [cls |-> clsname, enabled |-> enabled,
                                          priority |-> priority,
                                          name |-> provider_name(name, clsname)])
    /\ op' = [name |-> "KeyProvider", cls |-> clsname, enabled |-> enabled,
              priority |-> priority, given |-> name, before |-> Len(registry)]
    /\ ret' = None
    /\ calls' = <<>>
    /\ UNCHANGED <<initialized, providers, keys, environ, listed, instance, allocated,
                 constructed, threads>>

\* The registry before a decoration: empty, or one class decorated earlier
InitNamed ==
    /\ registry \in {<<>>} \cup
          {<<[cls |-> cn, enabled |-> TRUE, priority |-> 100,
              name |-> provider_name(NoName, cn)]>> : cn \in ClassNames}
    /\ initialized = FALSE
    /\ providers = <<>>
    /\ keys = [k \in KeyNames |-> Absent]
    /\ environ = [k \in KeyNames |-> Absent]
    /\ op = Idle
    /\ ret = None
    /\ calls = <<>>
    /\ listed = <<>>
    /\ instance = ModuleManager
    /\ allocated = 1
    /\ constructed = NoneConstructed
    /\ threads = NoThreads

NextNamed ==
    \/ \E clsname \in ClassNames, enabled \in BOOLEAN, priority \in SomePriorities,
          name \in GivenNames : KeyProviderNamed(clsname, enabled, priority, name)
    \/ Return

SpecNamed == InitNamed /\ [][NextNamed]_vars

-----------------------------------------------------------------------------
(* Properties of the decorator *)

\* The class name without a "KeyProvider" suffix, in lower case
StrippedAndLowered(clsname) ==
    Lower(IF EndsWith(clsname, Suffix)
          THEN SubSeq(clsname, 1, Len(clsname) - Len(Suffix)) ELSE clsname)

\* The descriptors of the class the decorator was applied to
DescriptorsOfClass == {i \in 1..Len(registry) : registry[i].cls = op.cls}

\* C25 as stated: KeyProvider(enabled, priority, name) applied to a class
\* adds exactly one descriptor with that flag, that priority and that class;
\* its display name is the given name when one is given, and otherwise the
\* class name without the 'KeyProvider' suffix, in lower case.
C25_NameGivenOrDerived ==
    op.name = "KeyProvider" =>
        /\ Cardinality(DescriptorsOfClass) = 1
        /\ \A i \in DescriptorsOfClass :
              /\ registry[i].enabled = op.enabled
              /\ registry[i].priority = op.priority
              /\ registry[i].name = IF op.given # NoName THEN op.given
                                    ELSE StrippedAndLowered(op.cls)

\* A class decorated with a name= that ends with "KeyProvider", next to a
\* class decorated earlier
C25_Witness ==
    /\ op.name = "KeyProvider"
    /\ Len(registry) = 2
    /\ op.given # NoName
    /\ EndsWith(op.given, Suffix)

(***************************************************************************)
(* C26: get_key on a cached key of an uninitialized manager                *)
(* core.py:260-264: self._initialize() is the first statement of get_key,  *)
(* the cache is looked at after it.                                        *)
(***************************************************************************)

\* This step is a get_key call for a key that is cached with a non-empty
\* value, made while _initialized is False
CachedGetWhileUninitialized ==
    /\ op' # op
    /\ op'.name = "get_key"
    /\ keys[op'.key] # Absent
    /\ keys[op'.key] # ""
    /\ ~initialized

\* C26 as stated: when k is cached with a non-empty value and the manager is
\* uninitialized, get_key(k) returns the cached value without initializing the
\* manager, i.e. without calling any descriptor's constructor.
C26_CacheHitDoesNotInitialize ==
    [][CachedGetWhileUninitialized
          => /\ ret' = keys[op'.key]
             /\ ~initialized'
             /\ constructed' = constructed]_vars

\* C26 as the code has it: when k is cached with a non-empty value and the
\* manager is uninitialized, get_key(k) returns the cached value without
\* calling a method of any provider and without touching the cache, but it
\* initializes the manager first: the constructor of every enabled descriptor
\* is called once and the manager is left initialized.
C26_CacheHitInitializesFirst ==
    [][CachedGetWhileUninitialized
          => /\ ret' = keys[op'.key]
             /\ calls' = <<>>
             /\ keys' = keys
             /\ environ' = environ
             /\ initialized'
             /\ constructed' = CountBuild(registry, constructed)]_vars

\* get_key has answered from the cache on a manager that was uninitialized
\* and that call has built the live instances
C26_Witness ==
    /\ op.name = "get_key"
    /\ op.uninitialized
    /\ op.cached # Absent
    /\ op.cached # ""
    /\ ret = op.cached
    /\ calls = <<>>
    /\ initialized
    /\ providers # <<>>
    /\ \E c \in Kinds : constructed[c] = 1

(***************************************************************************)
(* C27: the manager's _initialized flag over its life                      *)
(* core.py:112-116 (_initialize) and core.py:149-185 (enable_provider and  *)
(* disable_provider set _initialized = False and call _initialize() in the *)
(* same breath, before they return True)                                   *)
(***************************************************************************)

\* The calls that start with self._initialize()
NeedsLiveInstances(o) ==
    \/ o.name \in {"get_key", "register_provider", "get_providers",
                   "get_provider_status", "get_writable_providers", "_initialize"}
    \/ o.name = "set_key" /\ o.persist

IsToggle(o) == o.name \in {"enable_provider", "disable_provider"}

\* This step is a call of the caller
CallMade == op' # op /\ op'.name # "idle"

\* This step is an enable_provider or disable_provider that returns True
ToggleSucceeds == CallMade /\ IsToggle(op') /\ ret' = PyTrue

\* This step is an enable_provider or disable_provider that returns False
ToggleFails == CallMade /\ IsToggle(op') /\ ret' = PyFalse

\* C27 as stated: the manager starts uninitialized, becomes initialized on the
\* first operation that needs live instances, and every successful
\* enable_provider/disable_provider leaves it uninitialized, no constructor
\* having been called inside the enable/disable call.
C27_ToggleLeavesUninitialized ==
    /\ ~initialized
    /\ [][/\ (CallMade /\ NeedsLiveInstances(op')) => initialized'
          /\ ToggleSucceeds => (~initialized' /\ constructed' = NoneConstructed)]_vars

\* C27 as the code has it: the manager starts uninitialized and becomes
\* initialized on the first operation that needs live instances; once
\* initialized it never is uninitialized again at the end of a call, and no
\* call other than a successful enable/disable calls a constructor again. A
\* successful enable_provider/disable_provider rebuilds the live list inside
\* the call, from the flags it has just written, and leaves the manager
\* initialized; one that returns False changes nothing.
C27_ToggleReinitializes ==
    /\ ~initialized
    /\ [][/\ (CallMade /\ NeedsLiveInstances(op')) => initialized'
          /\ initialized => initialized'
          /\ (initialized /\ ~ToggleSucceeds) => constructed' = constructed
          /\ (~initialized /\ ~(CallMade /\ NeedsLiveInstances(op')) /\ ~ToggleSucceeds)
                => ~initialized'
          /\ ToggleSucceeds
                => /\ initialized'
                   /\ providers' = BuildInstances(SortedByPriority(registry'), op'.kind)
                   /\ constructed' = CountBuild(registry', NoneConstructed)
          /\ ToggleFails => UNCHANGED <<initialized, providers, registry, constructed>>]_vars

\* enable_provider has succeeded on a manager that was initialized, and has
\* left it initialized with the instances it has built itself
C27_Witness ==
    /\ op.name = "enable_provider"
    /\ ret = PyTrue
    /\ ~op.uninitialized
    /\ initialized
    /\ providers # <<>>
    /\ \E c \in Kinds : constructed[c] = 1

-----------------------------------------------------------------------------
(* The manager's calls that start with _initialize(), all together, and the *)
(* constructor calls they make                                              *)

\* [provider.name for provider in self._providers]
ProviderNames(live) == [i \in 1..Len(live) |-> live[i].name]

\* keys.get_providers(); listed keeps the list returned
GetProviders(ok) ==
    LET live == Initialized(registry, initialized, providers, ok)
    IN  /\ op = Idle
        /\ providers' = live
        /\ initialized' = TRUE
        /\ listed' = ProviderNames(live)
        /\ ret' = None
        /\ calls' = <<>>
        /\ op' = OpRecord("get_providers", None, None, FALSE, NoFilter, None, ok, None,
                          FALSE)
        /\ constructed' = ConstructedBy(registry, initialized, constructed)
        /\ UNCHANGED <<registry, keys, environ, instance, allocated, threads>>

\* keys.get_writable_providers(); listed keeps the list returned
GetWritableProviders(ok, w) ==
    LET live == Initialized(registry, initialized, providers, ok)
    IN  /\ op = Idle
        /\ providers' = live
        /\ initialized' = TRUE
        /\ \E out \in {get_writable_providers(live, w, 1, <<>>, <<>>)} :
              /\ ret' = out.ret
              /\ listed' = out.names
              /\ calls' = out.calls
        /\ op' = OpRecord("get_writable_providers", None, None, FALSE, NoFilter, None, ok,
                          None, FALSE)
        /\ constructed' = ConstructedBy(registry, initialized, constructed)
        /\ UNCHANGED <<registry, keys, environ, instance, allocated, threads>>

\* The provider behaviours the calls are explored on here: a provider that
\* writes, one that does not support writing, and one that has no
\* supports_write at all
LifeWalks(n) ==
    {w \in WriteWalksOfLength(n) :
        \A i \in 1..Len(w) :
            \/ w[i].sup \in {PyFalse, NoAttr}
            \/ w[i].val = PyTrue /\ w[i].wr = PyTrue}

LifePersistInputs(ok) ==
    LET n == Len(Initialized(registry, initialized, providers, ok))
    IN  IF n <= MaxCandidates THEN LifeWalks(n) ELSE {}

LifeStatusInputs(reg, live) ==
    {beh \in [1..Len(reg) -> {Unasked, [sup |-> PyTrue, info |-> Capabilities],
                              [sup |-> NoAttr, info |-> NoAttr]}] :
        \A i \in 1..Len(reg) :
            (beh[i] = Unasked) <=> (FirstLive(live, reg[i].name, 1) = 0)}

LifeWritableInputs(live) == [1..Len(live) -> {NoAttr, PyTrue, PyFalse}]

\* Every call of the manager that needs the live list, with the registration
\* of classes and enable/disable in between
NextLife ==
    \/ CallerIdle /\ \E c \in Kinds, enabled \in BOOLEAN : KeyProvider(c, enabled)
    \/ CallerIdle /\ \E k \in KeyNames, ok \in FactoryOutcomes(registry, initialized) :
         \E resp \in GetInputs(k, NoFilter, ok) : GetKey(k, NoFilter, ok, resp)
    \/ CallerIdle /\ \E k \in KeyNames, persist \in BOOLEAN,
                        ok \in FactoryOutcomes(registry, initialized) :
         \E beh \in IF persist THEN LifePersistInputs(ok) ELSE {<<>>} :
            \E v \in CliValues :
               SetKey(k, v, persist, NoFilter, IF persist THEN ok ELSE {}, beh)
    \/ CallerIdle /\ \E n \in FilterNames, flag \in BOOLEAN :
         \E ok \in FactoryOutcomesAfter(n, flag) : SetProviderEnabled(n, flag, ok)
    \/ CallerIdle /\ \E c \in Kinds, ok \in FactoryOutcomes(registry, initialized) :
         RegisterProvider(c, ok)
    \/ CallerIdle /\ \E ok \in FactoryOutcomes(registry, initialized) : GetProviders(ok)
    \/ CallerIdle /\ \E ok \in FactoryOutcomes(registry, initialized) :
         \E beh \in LifeStatusInputs(registry,
                                      Initialized(registry, initialized, providers, ok)) :
            GetProviderStatus(ok, beh)
    \/ CallerIdle /\ \E ok \in FactoryOutcomes(registry, initialized) :
         \E w \in LifeWritableInputs(Initialized(registry, initialized, providers, ok)) :
            GetWritableProviders(ok, w)
    \/ Return

SpecLife == Init /\ [][NextLife]_vars

\* C28: between two consecutive successful enable/disable calls, and from
\* process start to the first one, the constructor of each descriptor's class
\* is called at most once, whatever get_key, set_key, get_providers,
\* get_provider_status, get_writable_providers and register_provider calls are
\* made; a constructor that raised is not called again within the cycle. (The
\* calls made by the re-initialization inside a successful enable/disable
\* belong to the cycle that this enable/disable opens.)
C28_ConstructedOncePerCycle == \A c \in Kinds : constructed[c] <= 1

\* The constructor of an enabled class has raised in this cycle, and a later
\* call that needs the live list has been made without calling it again
C28_Witness ==
    /\ op.name \in {"get_key", "set_key", "get_providers", "get_provider_status",
                    "get_writable_providers", "register_provider"}
    /\ op.name = "set_key" => op.persist
    /\ ~op.uninitialized
    /\ \E i \in 1..Len(registry) :
          /\ registry[i].enabled
          /\ constructed[registry[i].cls] = 1
          /\ \A j \in 1..Len(providers) :
                providers[j].cls = registry[i].cls => providers[j].manual

(***************************************************************************)
(* C29: the names in the live list                                         *)
(* core.py:72-93 (initialize_providers appends one instance per enabled    *)
(* descriptor and compares no names) and core.py:118-137                   *)
(* (register_provider returns early on a name that is already live)        *)
(***************************************************************************)

\* C29: in every reachable state no two instances of the live list have the
\* same name, also when two registered descriptors with the same display name
\* are both enabled.
C29_LiveNamesUnique ==
    \A i, j \in 1..Len(providers) :
        providers[i].name = providers[j].name => i = j

\* Two enabled descriptors of different classes carry the same display name
\* and the initialization has built an instance of each
C29_Witness ==
    /\ initialized
    /\ \E i, j \in 1..Len(providers) :
          /\ i < j
          /\ providers[i].name = providers[j].name
          /\ providers[i].cls # providers[j].cls
          /\ ~providers[i].manual
          /\ ~providers[j].manual

-----------------------------------------------------------------------------
(* The persistence loop of set_key on live lists that register_provider has *)
(* added to                                                                 *)

\* The providers arguments set_key is called with here
PersistFilters == {NoFilter, {"p1", "p2"}}

\* The loop inputs explored here: of the providers that are written to,
\* one without validate_key whose write succeeds, and ones with validate_key
\* whose write succeeds or raises
OrderWalks(F, ok) ==
    {w \in PersistInputs(F, ok) :
        \A i \in 1..Len(w) :
            w[i].wr # NotCalled =>
                \/ w[i].val = NoAttr /\ w[i].wr = PyTrue
                \/ w[i].val = PyTrue /\ w[i].wr \in {PyTrue, RAISE}}

NextPersist ==
    \/ CallerIdle /\ \E c \in Kinds, enabled \in BOOLEAN : KeyProvider(c, enabled)
    \/ CallerIdle /\ \E k \in KeyNames, F \in PersistFilters,
                        ok \in FactoryOutcomes(registry, initialized) :
         \E beh \in OrderWalks(F, ok) : SetKey(k, "v1", TRUE, F, ok, beh)
    \/ CallerIdle /\ \E c \in Kinds, ok \in FactoryOutcomes(registry, initialized) :
         RegisterProvider(c, ok)
    \/ Return

SpecPersist == Init /\ [][NextPersist]_vars

\* The calls of method m made on the candidate of class c
CallsTo(c, m) == {i \in 1..Len(calls) : calls[i].cls = c /\ calls[i].m = m}

\* The classes of the candidates
CandidateKinds == {ActiveNow[i].cls : i \in 1..Len(ActiveNow)}

\* Where the candidate of class c is among the candidates
CandidatePosition(c) == CHOOSE i \in 1..Len(ActiveNow) : ActiveNow[i].cls = c

\* write_key is called once on every eligible candidate the loop comes to,
\* on no other provider, and the loop comes to every candidate unless an
\* exception has left set_key
WrittenOnceIfEligible ==
    /\ \A i \in 1..Len(calls) : calls[i].cls \in CandidateKinds
    /\ \A c \in CandidateKinds :
          /\ Cardinality(CallsTo(c, "write_key")) = IF Eligible(c) THEN 1 ELSE 0
          /\ ret # RAISE => CallsTo(c, "supports_write") # {}

\* C30 as stated: set_key with persist=True calls write_key exactly once on
\* every candidate that reports supports_write() true and passes validate_key,
\* in ascending priority order and without stopping at the first write that
\* succeeds, and on no provider that reports supports_write() false, lacks it
\* or fails validation.
C30_WritesInPriorityOrder ==
    (IsSet /\ op.persist) =>
        /\ WrittenOnceIfEligible
        /\ \A i, j \in 1..Len(calls) :
              (i < j /\ calls[i].m = "write_key" /\ calls[j].m = "write_key")
                 => ActiveNow[CandidatePosition(calls[i].cls)].priority
                       <= ActiveNow[CandidatePosition(calls[j].cls)].priority

\* C30 as the code has it: the same, the order being that of the live list:
\* the instances built from the registry in ascending priority, behind them
\* the instances added with register_provider, whatever their priority.
C30_WritesInListOrder ==
    (IsSet /\ op.persist) =>
        /\ WrittenOnceIfEligible
        /\ \A i, j \in 1..Len(calls) :
              (i < j /\ calls[i].m = "write_key" /\ calls[j].m = "write_key")
                 => /\ CandidatePosition(calls[i].cls) < CandidatePosition(calls[j].cls)
                    /\ ActiveNow[CandidatePosition(calls[i].cls)].manual
                          => ActiveNow[CandidatePosition(calls[j].cls)].manual
                    /\ ~ActiveNow[CandidatePosition(calls[j].cls)].manual
                          => ActiveNow[CandidatePosition(calls[i].cls)].priority
                                <= ActiveNow[CandidatePosition(calls[j].cls)].priority

\* A persisting set_key has written to a provider and, after that write
\* succeeded, to an instance of lower priority number that register_provider
\* had added
C30_Witness ==
    /\ IsSet /\ op.persist
    /\ \E i, j \in 1..Len(calls) :
          /\ i < j
          /\ calls[i].m = "write_key" /\ calls[i].r = PyTrue
          /\ calls[j].m = "write_key"
          /\ ActiveNow[CandidatePosition(calls[j].cls)].manual
          /\ ActiveNow[CandidatePosition(calls[j].cls)].priority
                < ActiveNow[CandidatePosition(calls[i].cls)].priority

-----------------------------------------------------------------------------
(* C31: a write_key that raises (core.py:341-351, the try block around the  *)
(* write)                                                                   *)

\* The write_key calls of the persisting set_key that raised
FailedWrites == {i \in 1..Len(calls) : calls[i].m = "write_key" /\ calls[i].r = RAISE}

\* A write_key of the call returned True
SomeWriteSucceeded ==
    \E i \in 1..Len(calls) : calls[i].m = "write_key" /\ calls[i].r = PyTrue

\* C31: in set_key with persist=True an exception raised by a provider's
\* write_key is caught: it is not what leaves set_key (set_key returns True or
\* False unless a supports_write() or validate_key() raises), the loop goes on
\* to the candidate behind the failing one, and the failing write counts as
\* unsuccessful: the result is True only if a write_key of another provider
\* returns True.
C31_WriteFailureIsCaught ==
    (IsSet /\ op.persist) =>
        \A i \in FailedWrites :
            /\ CameToNextAfter(CandidatePosition(calls[i].cls))
            /\ NothingPropagated => ret \in {PyTrue, PyFalse}
            /\ ret = RAISE =>
                  /\ calls[Len(calls)].m \in {"supports_write", "validate_key"}
                  /\ calls[Len(calls)].r = RAISE
            /\ ret = PyTrue <=> (NothingPropagated /\ SomeWriteSucceeded)

\* The write_key of the first candidate raised, set_key went on to the second
\* one, whose write failed as well, and returned False
C31_Witness ==
    /\ IsSet /\ op.persist /\ ret = PyFalse
    /\ Len(ActiveNow) = 2
    /\ \E i \in FailedWrites :
          /\ calls[i].cls = ActiveNow[1].cls
          /\ \E j \in (i + 1)..Len(calls) :
                calls[j].cls = ActiveNow[2].cls /\ calls[j].m = "write_key"

\* The same, the write of the second candidate succeeding: the result is True
C31_WitnessTrue ==
    /\ IsSet /\ op.persist /\ ret = PyTrue
    /\ \E i \in FailedWrites :
          \E j \in (i + 1)..Len(calls) : calls[j].m = "write_key" /\ calls[j].r = PyTrue

-----------------------------------------------------------------------------
(* get_key and the non-persisting set_key on two key names, one that        *)
(* os.environ takes and one that it rejects                                 *)
(* (core.py:272-285: the cache write, the os.environ write and the return   *)
(* are inside the try block of the loop)                                    *)

EnvKeyNames == KeyNames \cup {"a=b"}

InitEnv ==
    /\ registry = <<>>
    /\ initialized = FALSE
    /\ providers = <<>>
    /\ keys = [k \in EnvKeyNames |-> Absent]
    /\ environ = [k \in EnvKeyNames |-> Absent]
    /\ op = Idle
    /\ ret = None
    /\ calls = <<>>
    /\ listed = <<>>
    /\ instance = ModuleManager
    /\ allocated = 1
    /\ constructed = NoneConstructed
    /\ threads = NoThreads

\* The inputs of a get_key(k): for a name the environment rejects the loop
\* comes to every candidate, whatever the ones before it answer
EnvInputs(k, ok) ==
    LET live == Initialized(registry, initialized, providers, ok)
    IN  IF EnvAccepts(k) \/ CacheHit(keys, k) THEN GetInputs(k, NoFilter, ok)
        ELSE {AsResponses(live, w) : w \in [1..Len(live) -> Responses]}

NextEnv ==
    \/ CallerIdle /\ \E c \in Kinds, enabled \in BOOLEAN : KeyProvider(c, enabled)
    \/ CallerIdle /\ \E k \in EnvKeyNames, ok \in FactoryOutcomes(registry, initialized) :
         \E resp \in EnvInputs(k, ok) : GetKey(k, NoFilter, ok, resp)
    \/ GetKeyAgain
    \/ CallerIdle /\ \E k \in EnvKeyNames, v \in SetValues :
         SetKey(k, v, FALSE, NoFilter, {}, <<>>)
    \/ Return

SpecEnv == InitEnv /\ [][NextEnv]_vars

\* The get_key calls of the call that has just returned to which a provider
\* answered with a value
Answered == {i \in 1..Len(calls) : calls[i].m = "get_key" /\ calls[i].r \in Secrets}

\* The first value a provider answered with
FirstAnswer == calls[CHOOSE i \in Answered : \A j \in Answered : i <= j].r

\* The cache entry of the key is not empty if get_key has written it
WrittenNonEmpty == keys[op.key] # op.cached => keys[op.key] \in Secrets

\* C32: after a get_key(k) that got value v from a provider, the cache maps k
\* to v and the process environment maps k to v; a cache entry written by
\* get_key is never empty.
C32_CachedAndMirrored ==
    (IsGet /\ Uncached) =>
        /\ Answered # {} => /\ keys[op.key] = FirstAnswer
                            /\ environ[op.key] = FirstAnswer
        /\ WrittenNonEmpty

\* The same for the key names that os.environ takes, where the value is also
\* what get_key returns
MirroredWhenAccepted ==
    (IsGet /\ Uncached /\ EnvAccepts(op.key)) =>
        /\ Answered # {} => /\ ret = FirstAnswer
                            /\ keys[op.key] = FirstAnswer
                            /\ environ[op.key] = FirstAnswer
        /\ Answered = {} => ret = None /\ keys[op.key] = op.cached
        /\ WrittenNonEmpty

\* What get_key does for a key name that os.environ rejects: it returns None
\* after asking every candidate, the cache holds the last value a provider
\* answered with, the environment is not written
RejectedNameLeavesCacheOnly ==
    (IsGet /\ Uncached /\ ~EnvAccepts(op.key)) =>
        /\ ret = None
        /\ Len(calls) = Len(ActiveNow)
        /\ environ[op.key] = Absent
        /\ Answered # {} =>
              keys[op.key] = calls[CHOOSE i \in Answered : \A j \in Answered : j <= i].r
        /\ Answered = {} => keys[op.key] = op.cached

\* get_key("a=b") has got a value from a provider and has returned None: the
\* value is in the cache and not in the environment
C32_Witness ==
    /\ IsGet /\ Uncached
    /\ ~EnvAccepts(op.key)
    /\ Answered # {}
    /\ ret = None
    /\ keys[op.key] \in Secrets
    /\ environ[op.key] = Absent

-----------------------------------------------------------------------------
(* C33: what changes the cache (core.py:247-353: the only assignments to    *)
(* self._keys are core.py:277 in get_key and core.py:311 in set_key)        *)

\* This step changes the cache entry of k in one of the two ways there are:
\* a set_key(k, v) writes v, or a get_key(k) that found k absent or empty in
\* the cache writes the value a provider answered with
ChangedBySetOrResolution(k) ==
    \/ op'.name = "set_key" /\ op'.key = k /\ keys'[k] = op'.value
    \/ /\ op'.name = "get_key" /\ op'.key = k
       /\ keys[k] \in {Absent, ""}
       /\ keys'[k] \in Secrets

\* C33: a key that is in the cache stays in the cache over every get_key,
\* set_key, enable_provider, disable_provider, register_provider and status
\* call, and the value of a cache entry changes only through a set_key on that
\* key, or through a get_key on that key that asks the providers because the
\* cached value is empty (or the key is not cached yet).
C33_CacheOnlyOverwritten ==
    [][\A k \in KeyNames :
          /\ keys[k] # Absent => keys'[k] # Absent
          /\ keys'[k] # keys[k] => (CallMade /\ ChangedBySetOrResolution(k))]_vars

\* A get_key has replaced an empty cache entry by a provider's value
C33_Witness ==
    /\ IsGet
    /\ op.cached = ""
    /\ keys[op.key] \in Secrets
    /\ ret = keys[op.key]

-----------------------------------------------------------------------------
(* Several threads inside the manager. core.py has no lock: _initialize     *)
(* (core.py:112-116) reads self._initialized, calls initialize_providers(), *)
(* assigns self._providers and then self._initialized, and another thread   *)
(* can run between any two of these; enable_provider / disable_provider     *)
(* (core.py:159-165, 178-184) write the flag, set self._initialized = False *)
(* and call _initialize().                                                  *)

Threads == {1, 2}

\* How many provider classes are registered when the threads start
MaxThreadKinds == 2

\* A thread has not read self._providers in this enable-cycle
NotSeen == [list |-> <<>>, source |-> 0]

\* pc: where each thread is; kind: the call it is in ("use": a call that
\* starts with _initialize() and then reads self._providers, "toggle":
\* enable_provider or disable_provider); built: the list its
\* initialize_providers() returned, until it is assigned; seen: the list it read from
\* self._providers and the thread that had built it; source: the thread that
\* built the list self._providers holds; overlapped: a thread has entered the
\* manager while another one was inside
ThreadsAtStart ==
    [pc |-> [t \in Threads |-> "idle"],
     kind |-> [t \in Threads |-> "use"],
     built |-> [t \in Threads |-> <<>>],
     seen |-> [t \in Threads |-> NotSeen],
     source |-> 0,
     overlapped |-> FALSE]

\* An _initialize() that builds whatever the flag says
NeedsBuildAlways(init) == TRUE

\* `if not self._initialized:`
NeedsBuild(init) == ~init

\* Thread t is between the first and the last statement of a call
Inside(t) == threads.pc[t] \notin {"idle", "done"}

\* The registries the threads start on: the classes decorated in order, all
\* enabled (enable_provider and disable_provider change the flags later)
StartRegistries == {[i \in 1..n |-> Descriptor(i, TRUE)] : n \in 0..MaxThreadKinds}

\* The constructor outcomes of one initialize_providers(): every constructor
\* succeeds, or the one of a single class raises
BuildOutcomes(reg) ==
    {EnabledKinds(reg)} \cup {EnabledKinds(reg) \ {c} : c \in EnabledKinds(reg)}

InitThreads ==
    /\ registry \in StartRegistries
    /\ initialized = FALSE
    /\ providers = <<>>
    /\ keys = [k \in KeyNames |-> Absent]
    /\ environ = [k \in KeyNames |-> Absent]
    /\ op = Idle
    /\ ret = None
    /\ calls = <<>>
    /\ listed = <<>>
    /\ instance = ModuleManager
    /\ allocated = 1
    /\ constructed = NoneConstructed
    /\ threads = ThreadsAtStart

\* Thread t enters a call that starts with self._initialize()
EnterUse(t) ==
    /\ threads.pc[t] \in {"idle", "done"}
    /\ threads' = [threads EXCEPT !.pc[t] = "check", !.kind[t] = "use",
                                  !.overlapped = @ \/ \E u \in Threads \ {t} : Inside(u)]
    /\ UNCHANGED <<registry, initialized, providers, keys, environ, op, ret, calls, listed,
                   instance, allocated, constructed>>

\* Thread t enters enable_provider(n) / disable_provider(n): the loop over the
\* registry writes the flag of the first descriptor named n, or finds none
\* and returns False
EnterToggle(t, n, flag) ==
    /\ threads.pc[t] \in {"idle", "done"}
    /\ registry' = SetEnabled(registry, n, flag)
    /\ threads' = [threads EXCEPT
                      !.pc[t] = IF FindByName(registry, n, 1) # 0 THEN "reset" ELSE "done",
                      !.kind[t] = "toggle",
                      !.overlapped = @ \/ \E u \in Threads \ {t} : Inside(u)]
    /\ UNCHANGED <<initialized, providers, keys, environ, op, ret, calls, listed,
                   instance, allocated, constructed>>

\* `self._initialized = False` of enable_provider / disable_provider: a new
\* enable-cycle starts
ResetFlag(t) ==
    /\ threads.pc[t] = "reset"
    /\ initialized' = FALSE
    /\ constructed' = NoneConstructed
    /\ threads' = [threads EXCEPT !.pc[t] = "check",
                                  !.seen = [u \in Threads |-> NotSeen]]
    /\ UNCHANGED <<registry, providers, keys, environ, op, ret, calls, listed,
                   instance, allocated>>

\* `if not self._initialized:` of _initialize
CheckFlag(t) ==
    /\ threads.pc[t] = "check"
    /\ threads' = [threads EXCEPT
                      !.pc[t] = IF NeedsBuild(initialized) THEN "build"
                                ELSE IF threads.kind[t] = "use" THEN "use" ELSE "done"]
    /\ UNCHANGED <<registry, initialized, providers, keys, environ, op, ret, calls, listed,
                   instance, allocated, constructed>>

\* initialize_providers() called by thread t; ok are the classes whose
\* constructor does not raise this time
BuildList(t, ok) ==
    /\ threads.pc[t] = "build"
    /\ threads' = [threads EXCEPT !.pc[t] = "assign",
                                  !.built[t] = initialize_providers(registry, ok)]
    /\ constructed' = CountBuild(registry, constructed)
    /\ UNCHANGED <<registry, initialized, providers, keys, environ, op, ret, calls, listed,
                   instance, allocated>>

\* `self._providers = ...` of _initialize
AssignList(t) ==
    /\ threads.pc[t] = "assign"
    /\ providers' = threads.built[t]
    /\ threads' = [threads EXCEPT !.pc[t] = "mark", !.source = t, !.built[t] = <<>>]
    /\ UNCHANGED <<registry, initialized, keys, environ, op, ret, calls, listed,
                   instance, allocated, constructed>>

\* `self._initialized = True` of _initialize
MarkInitialized(t) ==
    /\ threads.pc[t] = "mark"
    /\ initialized' = TRUE
    /\ threads' = [threads EXCEPT
                      !.pc[t] = IF threads.kind[t] = "use" THEN "use" ELSE "done"]
    /\ UNCHANGED <<registry, providers, keys, environ, op, ret, calls, listed,
                   instance, allocated, constructed>>

\* The call reads self._providers (`active_providers = self._providers`,
\* `for provider in self._providers`) and returns
UseList(t) ==
    /\ threads.pc[t] = "use"
    /\ threads' = [threads EXCEPT
                      !.pc[t] = "done",
                      !.seen[t] = [list |-> providers, source |-> threads.source]]
    /\ UNCHANGED <<registry, initialized, providers, keys, environ, op, ret, calls, listed,
                   instance, allocated, constructed>>

NextThreads ==
    \/ \E t \in Threads : EnterUse(t)
    \/ \E t \in Threads, n \in FilterNames, flag \in BOOLEAN : EnterToggle(t, n, flag)
    \/ \E t \in Threads : ResetFlag(t)
    \/ \E t \in Threads : CheckFlag(t)
    \/ \E t \in Threads : \E ok \in BuildOutcomes(registry) : BuildList(t, ok)
    \/ \E t \in Threads : AssignList(t)
    \/ \E t \in Threads : MarkInitialized(t)
    \/ \E t \in Threads : UseList(t)

SpecThreads == InitThreads /\ [][NextThreads]_vars

\* Each class's constructor has been called at most once in this enable-cycle
BuiltOncePerCycle == \A c \in Kinds : constructed[c] <= 1

\* The threads that have read self._providers in this enable-cycle have read
\* the same list
SameListSeen ==
    \A t, u \in Threads :
        (threads.seen[t] # NotSeen /\ threads.seen[u] # NotSeen)
           => threads.seen[t] = threads.seen[u]

\* C34 as stated: also when threads call the manager concurrently, each
\* enabled descriptor's constructor is called at most once per enable-cycle
\* and the threads observe the same live list.
C34_OncePerCycleUnderThreads == BuiltOncePerCycle /\ SameListSeen

\* C34 as the code has it: the manager has no lock. As long as no thread has
\* entered the manager while another one was inside it, each constructor is
\* called at most once per enable-cycle and the threads observe the same live
\* list; when calls overlap, every thread that read _initialized as False
\* runs initialize_providers() itself, so a constructor is called up to once
\* per thread in a cycle (and the threads can observe different lists).
C34_OncePerCycleWhenSerialized ==
    /\ \A c \in Kinds : constructed[c] <= Cardinality(Threads)
    /\ ~threads.overlapped => (BuiltOncePerCycle /\ SameListSeen)

\* Two threads have made their calls one after the other: the second one
\* found the manager initialized and read the list the first one had built
C34_Witness ==
    /\ ~threads.overlapped
    /\ \A t \in Threads : threads.pc[t] = "done" /\ threads.seen[t] # NotSeen
    /\ providers # <<>>
    /\ \E c \in Kinds : constructed[c] = 1

\* Two overlapping threads have both run initialize_providers()
C34_BothBuilt ==
    /\ threads.overlapped
    /\ \E c \in Kinds : constructed[c] = 2
    /\ \A t \in Threads : threads.pc[t] = "done"
    /\ threads.seen[1] # threads.seen[2]

-----------------------------------------------------------------------------
(* C35: set_key without persistence (core.py:310-314: the cache write and   *)
(* `if not persist: return True`, before self._initialize())                *)

\* This step is a set_key(k, v, persist=False)
SetWithoutPersist == CallMade /\ op'.name = "set_key" /\ ~op'.persist

\* C35: set_key(k, v, persist=False) changes cache[k] and nothing else: every
\* other cache entry, the enabled flags of the descriptors, the live list,
\* the initialized flag and the process environment stay as they are; an
\* uninitialized manager stays uninitialized and no constructor is called.
C35_OnlyTheCacheEntry ==
    [][SetWithoutPersist =>
          /\ keys'[op'.key] = op'.value
          /\ \A k \in DOMAIN keys : k # op'.key => keys'[k] = keys[k]
          /\ DOMAIN keys' = DOMAIN keys
          /\ UNCHANGED <<registry, providers, initialized, environ, constructed>>
          /\ calls' = <<>>]_vars

\* A set_key without persistence has been made on an uninitialized manager
\* that has an enabled descriptor, while another key was cached: the manager
\* is still uninitialized and the other key still cached
C35_Witness ==
    /\ IsSet /\ ~op.persist
    /\ op.uninitialized /\ ~initialized
    /\ EnabledKinds(registry) # {}
    /\ keys[op.key] = op.value
    /\ \E k \in DOMAIN keys : k # op.key /\ keys[k] \in Secrets

-----------------------------------------------------------------------------
(* get_key with a providers argument on cached keys, every live provider    *)
(* holding something for the key whether it is asked or not                 *)
(* (core.py:260-269: the cache check comes before the filter)               *)

\* What every live provider would answer to get_key(k) at the time of the
\* call
Holdings(live) == {AsResponses(live, w) : w \in [1..Len(live) -> Responses]}

NextHit ==
    \/ CallerIdle /\ \E c \in Kinds, enabled \in BOOLEAN : KeyProvider(c, enabled)
    \/ CallerIdle /\ \E k \in KeyNames, F \in Filters,
                        ok \in FactoryOutcomes(registry, initialized) :
         \E resp \in Holdings(Initialized(registry, initialized, providers, ok)) :
            GetKey(k, F, ok, resp)
    \/ CallerIdle /\ \E k \in KeyNames, v \in SetValues : SetKey(k, v, FALSE, NoFilter, {}, <<>>)
    \/ Return

SpecHit == Init /\ [][NextHit]_vars

\* The call that has just returned is a get_key with a list of names, made
\* while the key was cached with a non-empty value
FilteredGetOnCachedKey == IsGet /\ FilterGiven(op.filter) /\ ~Uncached

-----------------------------------------------------------------------------
(* get_key and set_key(persist=True) under every providers argument         *)
(* (core.py:266-269 and 320-323: `if providers:` narrows the live list)     *)

NextFilter ==
    \/ CallerIdle /\ \E c \in Kinds, enabled \in BOOLEAN : KeyProvider(c, enabled)
    \/ CallerIdle /\ \E k \in KeyNames, F \in Filters,
                        ok \in FactoryOutcomes(registry, initialized) :
         \E resp \in GetInputs(k, F, ok) : GetKey(k, F, ok, resp)
    \/ CallerIdle /\ \E k \in KeyNames, v \in SetValues, F \in Filters,
                        ok \in FactoryOutcomes(registry, initialized) :
         \E beh \in PersistInputs(F, ok) : SetKey(k, v, TRUE, F, ok, beh)
    \/ Return

SpecFilter == Init /\ [][NextFilter]_vars

\* The call that has just returned went to the providers: a get_key on an
\* uncached key or a persisting set_key
WentToProviders == (IsGet /\ Uncached) \/ (IsSet /\ op.persist)

\* The providers the call came to, one entry per loop iteration
CameTo == SelectSeq(calls, LAMBDA c : c.m \in {"get_key", "supports_write"})

\* The loop of the call ended before the end of its list: get_key found a
\* value, or an exception left set_key
EndedEarly == IF IsGet THEN ret # None ELSE ret = RAISE

\* The loop went over the whole live list, from its head, and ended early
\* only where a loop over the unfiltered list ends
ConsideredEveryLive ==
    /\ Len(CameTo) <= Len(providers)
    /\ \A i \in 1..Len(CameTo) : CameTo[i].cls = providers[i].cls
    /\ ~EndedEarly => Len(CameTo) = Len(providers)

\* No name of the filter list is the name of a live provider
MatchesNoLive == \A i \in 1..Len(providers) : providers[i].name \notin op.filter

\* C37: get_key(k, providers=[]) on an uncached key and
\* set_key(k, v, persist=True, providers=[]) go over every live provider, as
\* they do when providers is None; with a non-empty list none of whose names
\* is the name of a live provider they ask no provider and return None and
\* False, and no exception leaves them.
C37_EmptyFilterIsNoFilter ==
    WentToProviders =>
        /\ op.filter \in {NoFilter, {}} => ConsideredEveryLive
        /\ (op.filter \notin {NoFilter, {}} /\ MatchesNoLive) =>
              /\ calls = <<>>
              /\ ret = IF IsGet THEN None ELSE PyFalse

\* A persisting set_key with providers=[] has gone over two live providers
C37_Witness ==
    /\ IsSet /\ op.persist /\ op.filter = {}
    /\ Len(providers) >= 2
    /\ Len(CameTo) = Len(providers)

\* A get_key with providers=[] has asked two live providers
C37_WitnessGet ==
    /\ IsGet /\ Uncached /\ op.filter = {}
    /\ Len(providers) >= 2 /\ Len(CameTo) = Len(providers)

\* A call with a list that names no live provider, live providers at hand
C37_WitnessUnmatched ==
    /\ WentToProviders
    /\ op.filter \notin {NoFilter, {}} /\ MatchesNoLive
    /\ providers # <<>>

(***************************************************************************)
(* C38: a class decorated after the manager was initialized                *)
(* core.py:34-46 (the decorator writes the registry only), core.py:112-116 *)
(* (_initialize builds the live list once) and core.py:187-229             *)
(* (get_provider_status resolves every descriptor by its display name)     *)
(***************************************************************************)

\* Descriptor i is enabled and the constructor of its class has not been
\* called since the live list was built: it was registered after the
\* initialization, and no enable_provider / disable_provider has succeeded
\* since
RegisteredLate(i) ==
    /\ initialized
    /\ registry[i].enabled
    /\ constructed[registry[i].cls] = 0

\* The manager has built an instance for descriptor i
BuiltByManager(i) ==
    \E j \in 1..Len(providers) : providers[j].cls = registry[i].cls /\ ~providers[j].manual

\* The call that has just returned asked an instance of the class of
\* descriptor i
Consulted(i) ==
    /\ IsGet \/ IsSet
    /\ \E h \in 1..Len(calls) : calls[h].cls = registry[i].cls

\* What the live instance named n answered when the call asked it for m the
\* last time, the default when it was not asked or gave no answer
LastAnswer(n, m, answers, default) ==
    LET asked == {h \in 1..Len(calls) : calls[h].name = n /\ calls[h].m = m}
    IN  IF asked = {} THEN default
        ELSE LET last == CHOOSE h \in asked : \A g \in asked : g <= h
             IN  IF calls[last].r \in answers THEN calls[last].r ELSE default

\* The status report has descriptor i with the defaults
ReportedWithDefaults(i) ==
    \E j \in 1..Len(listed) :
        /\ listed[j].name = registry[i].name
        /\ listed[j].status.class = registry[i].cls
        /\ listed[j].status.enabled
        /\ listed[j].status.supports_write = PyFalse
        /\ listed[j].status.capabilities = EmptyDict

\* C38 as stated: a descriptor registered after the initialization is not
\* instantiated and not consulted by get_key / set_key until the next
\* successful enable_provider / disable_provider, and until then
\* get_provider_status reports it as enabled with supports_write = False and
\* empty capabilities.
C38_LateDescriptorHasDefaults ==
    \A i \in 1..Len(registry) :
        RegisteredLate(i) =>
            /\ ~BuiltByManager(i)
            /\ ~Consulted(i)
            /\ IsStatus => ReportedWithDefaults(i)

\* C38: a descriptor registered after the initialization is not instantiated
\* by the manager until the next successful enable_provider /
\* disable_provider, which builds it if its constructor succeeds; until then
\* get_key / set_key ask its class only through an instance that
\* register_provider added, and the get_provider_status entry under its
\* display name has supports_write = False and empty capabilities when no
\* live instance has that name, and otherwise what the first live instance
\* of that name answers (when several descriptors have the name, its answers
\* to the last one).
C38_LateDescriptorUntilToggle ==
    /\ \A i \in 1..Len(registry) :
          RegisteredLate(i) =>
              /\ ~BuiltByManager(i)
              /\ Consulted(i) =>
                    \E j \in 1..Len(providers) :
                        providers[j].cls = registry[i].cls /\ providers[j].manual
              /\ IsStatus =>
                    \E j \in 1..Len(listed) :
                        /\ listed[j].name = registry[i].name
                        /\ listed[j].status.supports_write =
                              LastAnswer(listed[j].name, "supports_write",
                                         {PyTrue, PyFalse}, PyFalse)
                        /\ listed[j].status.capabilities =
                              LastAnswer(listed[j].name, "get_provider_info",
                                         {Capabilities}, EmptyDict)
    /\ (IsToggle(op) /\ ret = PyTrue) =>
          \A i \in 1..Len(registry) :
              /\ ~RegisteredLate(i)
              /\ (registry[i].enabled /\ registry[i].cls \in op.kind) => BuiltByManager(i)

\* A status report made while an enabled descriptor registered after the
\* initialization has no live instance of its name and other instances are
\* live
C38_Witness ==
    /\ IsStatus
    /\ providers # <<>>
    /\ \E i \in 1..Len(registry) :
          /\ RegisteredLate(i)
          /\ FirstLive(providers, registry[i].name, 1) = 0
          /\ ReportedWithDefaults(i)

\* A descriptor registered late is reported with what a live instance of its
\* name answered
C38_WitnessNamesake ==
    /\ IsStatus
    /\ \E i \in 1..Len(registry) :
          /\ RegisteredLate(i)
          /\ \E j \in 1..Len(listed) :
                listed[j].name = registry[i].name /\ listed[j].status.supports_write = PyTrue

\* A get_key has asked live providers and left a descriptor registered late
\* alone
C38_WitnessGet ==
    /\ IsGet /\ calls # <<>> /\ ret = None
    /\ \E i \in 1..Len(registry) : RegisteredLate(i) /\ ~Consulted(i)

(***************************************************************************)
(* C39: the place and the lifetime of an instance added with               *)
(* register_provider                                                       *)
(* core.py:118-137 (self._providers.append), core.py:72-93 and 149-185     *)
(* (enable/disable replace the list by initialize_providers())             *)
(***************************************************************************)

\* The instances added with register_provider are behind every instance built
\* from the registry
ManualBehindBuilt ==
    \A i, j \in 1..Len(providers) :
        (providers[i].manual /\ ~providers[j].manual) => j < i

\* This step is a register_provider that adds its instance to the live list
\* (which the call itself builds first when the manager is not initialized)
Adds ==
    /\ CallMade /\ op'.name = "register_provider"
    /\ IF initialized THEN providers' # providers
       ELSE \E i \in 1..Len(providers') : providers'[i].manual

\* C39: the instances added with register_provider are behind every instance
\* built from the registry, whatever the priorities, and get_key asks them
\* behind those; after a successful enable_provider or disable_provider, of
\* whatever name, the live list holds no instance added with
\* register_provider.
C39_RegisteredLastUntilToggle ==
    /\ ManualBehindBuilt
    /\ (IsGet /\ Uncached /\ op.filter = NoFilter) =>
          \A i \in 1..Len(calls) :
              /\ calls[i].cls = providers[i].cls
              /\ (providers[i].manual /\ i > 1) => calls[i - 1].r \notin Secrets
    /\ (IsToggle(op) /\ ret = PyTrue) => \A i \in 1..Len(providers) : ~providers[i].manual

\* The steps behind C39: register_provider appends its instance to the list
\* as it is, and a successful enable_provider or disable_provider replaces
\* the list by the instances built from the registry.
C39_AppendedThenDiscarded ==
    [][/\ Adds =>
           /\ providers'[Len(providers')].manual
           /\ providers'[Len(providers')].cls \in op'.kind
           /\ initialized => SubSeq(providers', 1, Len(providers') - 1) = providers
      /\ ToggleSucceeds =>
           /\ \A i \in 1..Len(providers') : ~providers'[i].manual
           /\ providers' = BuildInstances(SortedByPriority(registry'), op'.kind)]_vars

\* A get_key has asked an instance added with register_provider behind an
\* instance built from the registry that has a larger priority number
C39_Witness ==
    /\ IsGet /\ Uncached /\ op.filter = NoFilter
    /\ Len(calls) = 2
    /\ providers[2].manual /\ ~providers[1].manual
    /\ providers[2].priority < providers[1].priority

(***************************************************************************)
(* C40: exceptions of supports_write() and validate_key() in set_key       *)
(* core.py:310-353 (only write_key is called inside a try block)           *)
(***************************************************************************)

\* The calls of the persisting set_key in which supports_write() or
\* validate_key() raised
CheckRaisedAt ==
    {h \in 1..Len(calls) :
        calls[h].m \in {"supports_write", "validate_key"} /\ calls[h].r = RAISE}

\* C40: when supports_write() or validate_key() of a candidate raises in
\* set_key(k, v, persist=True), the exception leaves set_key: that call is
\* the last call set_key makes, so the candidates behind are not attempted
\* and nothing is done about the write_key calls made before; the cache holds
\* v. An exception of write_key alone does not leave set_key.
C40_CheckFailurePropagates ==
    (IsSet /\ op.persist) =>
        /\ CheckRaisedAt # {} =>
              /\ ret = RAISE
              /\ CheckRaisedAt = {Len(calls)}
              /\ Len(CameTo) <= Len(ActiveNow)
              /\ \A i \in 1..Len(CameTo) : CameTo[i].cls = ActiveNow[i].cls
              /\ keys[op.key] = op.value
        /\ CheckRaisedAt = {} => ret \in {PyTrue, PyFalse} /\ Len(CameTo) = Len(ActiveNow)

\* validate_key() of the second candidate raised after the first candidate
\* had written the value
C40_Witness ==
    /\ IsSet /\ op.persist /\ ret = RAISE
    /\ Len(ActiveNow) = 2 /\ Len(CameTo) = 2
    /\ \E h \in 1..Len(calls) :
          calls[h].m = "write_key" /\ calls[h].r = PyTrue /\ calls[h].cls = ActiveNow[1].cls
    /\ calls[Len(calls)].m = "validate_key"
    /\ op.cached # op.value /\ keys[op.key] = op.value

\* supports_write() of the first candidate raised and the second candidate
\* was left alone
C40_WitnessNotAttempted ==
    /\ IsSet /\ op.persist /\ ret = RAISE
    /\ Len(ActiveNow) = 2 /\ Len(CameTo) = 1
    /\ calls[Len(calls)].m = "supports_write"

====
